---- MODULE Spec2Model ----
(***************************************************************************)
(* Model of the graph-based learning-gap analyzer                          *)
(* (backend/queryHandling/static/graph/real_graph_analyzer.py) and of the  *)
(* way the chat handler calls it, with the graph builder                    *)
(* (graph_builder.py) that writes the snapshot the analyzer loads.         *)
(*                                                                         *)
(* Numbers: the code works with floats whose values are multiples of 0.1   *)
(* (edge weights) or of 0.1 and 0.5 (priorities).  The model keeps them as *)
(* integers in TENTHS: weight 0.1 is 1, weight 1.0 is 10, a path of k      *)
(* nodes reported as distance k is 10 * k.  A percentage is kept as the    *)
(* exact fraction num / den.                                               *)
(***************************************************************************)
EXTENDS Integers, Sequences, FiniteSets, TLC

VARIABLES
    nodes,      \* graph_data['nodes']: the snapshot's node list, in file order
    graph,      \* self.graph: the networkx DiGraph built from the snapshot
    clusters,   \* self.clusters: lists of topic ids, in dict insertion order
    phase,      \* "loading" while build_real_graph runs, then "ready"; at
                \* startup "constructing" before it and, when it raises,
                \* "raised" and then "no_analyzer"
    call,       \* the last query made on the loaded analyzer
    result,     \* what that query returned (or the exception it raised)
    threads,    \* the analyzer calls in progress, each with its local variables
    session,    \* self.learning_sessions[user_id] of the chat handler
    profile     \* the user profile file the chat handler reads and rewrites

vars == <<nodes, graph, clusters, phase, call, result, threads, session, profile>>

\* the state of the chat handler and of the calls in progress, which the
\* single-call model of the analyzer leaves alone
handler == <<threads, session, profile>>

----------------------------------------------------------------------------
(* Bounds of the model *)

\* longest edge list of a snapshot (beyond the contains edges the gap
\* analyzer's snapshot starts with)
MaxEdges == 2
\* longest completed list handed to analyze_subtopic_learning_gaps
MaxCompleted == 2
\* longest name asked of find_node_by_name, in characters
MaxQueryLen == 3
\* most entries of a session's completed_topics
MaxSessionCompleted == 3

----------------------------------------------------------------------------
(* The universe of ids.  A snapshot lists three of the four; the fourth is  *)
(* an id that does not resolve to a node of the loaded graph.               *)

AllIds == {"t1", "t2", "s1", "s2"}

\* the topics of the larger snapshot the cluster fallback is exercised on
ClusterTopics == {"t1", "t2", "t3", "t4", "t5"}

\* node['type'] of the node with id i: the builder gives topics a 't' id and
\* subtopics an 's' id
NodeType ==
    [i \in AllIds \cup ClusterTopics \cup {"s3", "s4"} |->
        IF i \in ClusterTopics THEN "topic" ELSE "subtopic"]

Node(i) == [id |-> i, type |-> NodeType[i]]

\* two topics and a subtopic: the path finder's scenarios of spec.md section 8
PathSnapshotNodes == <<Node("t1"), Node("t2"), Node("s1")>>
\* one topic and two subtopics: the gap analyzer's scenario of spec.md section 8
GapSnapshotNodes == <<Node("t1"), Node("s1"), Node("s2")>>

\* five topics and a subtopic: enough topics for a cluster with more members
\* than the cluster fallback returns
ClusterSnapshotNodes ==
    <<Node("t1"), Node("t2"), Node("t3"), Node("t4"), Node("t5"), Node("s1")>>
\* a snapshot written by GraphBuilder for two topic names that clean to the same
\* string (as 'Linked List' and 'LinkedList'): _generate_id gives both the same
\* id, and both nodes are listed
CollidingSnapshotNodes == <<Node("t1"), Node("t2"), Node("t1"), Node("s1")>>

\* two topics with two subtopics each, as GraphBuilder lists them: the gap
\* analyzer's search for prerequisites among the subtopics of other topics
CrossSnapshotNodes ==
    <<Node("t1"), Node("s1"), Node("s2"), Node("t2"), Node("s3"), Node("s4")>>
\* the same for two subtopic names of t2 whose generated ids coincide
CollidingCrossSnapshotNodes ==
    <<Node("t1"), Node("s1"), Node("s2"), Node("t2"), Node("s3"), Node("s3")>>

\* edge types a snapshot edge may carry; NoType stands for an edge without 'type'
EdgeTypes == {"prerequisite", "sequence", "contains", "leads_to", "related"}
NoType == ""
SnapshotTypes == EdgeTypes \cup {NoType}

----------------------------------------------------------------------------
(* Sequence helpers *)

Range(s) == {s[i] : i \in 1..Len(s)}

Contains(s, x) == \E i \in 1..Len(s) : s[i] = x

Min(S) == CHOOSE x \in S : \A y \in S : x <= y

\* sequences over S of length at most n
SeqsUpTo(S, n) == UNION {[1..k -> S] : k \in 0..n}

\* list.sort(key=...): stable ascending sort of s by key (equal keys keep their order in s)
RECURSIVE SortByKey(_, _)
SortByKey(s, key) ==
    IF s = <<>> THEN <<>>
    ELSE LET front == SortByKey(SubSeq(s, 1, Len(s) - 1), key)
             x == s[Len(s)]
             \* x goes after every element whose key is <= key[x]
             pos == Cardinality({i \in 1..Len(front) : key[front[i]] <= key[x]})
         IN SubSeq(front, 1, pos) \o <<x>> \o SubSeq(front, pos + 1, Len(front))

----------------------------------------------------------------------------
(* The DiGraph *)

NodeIds == {nodes[i].id : i \in 1..Len(nodes)}

\* no edge between a pair; an edge holds its attributes 'type' and 'weight' and
\* n, the number of snapshot entries read for its pair
NoEdge == [type |-> "none", weight |-> 0, n |-> 0]

\* nx.DiGraph() with every snapshot node added (lines 56-60)
EmptyGraph(ids) ==
    [attr |-> [p \in ids \X ids |-> NoEdge],
     succ |-> [u \in ids |-> <<>>],
     pred |-> [v \in ids |-> <<>>]]

\* mutant: 'related' falls through to the default weight
GetEdgeWeight_RelatedAsDefault(edge_type) ==
    CASE edge_type = "prerequisite" -> 1
      [] edge_type = "sequence" -> 2
      [] edge_type = "contains" -> 3
      [] edge_type = "leads_to" -> 5
      [] OTHER -> 10

\* mutant: the weights of 'contains' and 'leads_to' exchanged
GetEdgeWeight_ContainsLeadsToSwapped(edge_type) ==
    CASE edge_type = "prerequisite" -> 1
      [] edge_type = "sequence" -> 2
      [] edge_type = "contains" -> 5
      [] edge_type = "leads_to" -> 3
      [] edge_type = "related" -> 8
      [] OTHER -> 10

\* weights.get(edge_type, 1.0), in tenths
GetEdgeWeight(edge_type) ==
    CASE edge_type = "prerequisite" -> 1
      [] edge_type = "sequence" -> 2
      [] edge_type = "contains" -> 3
      [] edge_type = "leads_to" -> 5
      [] edge_type = "related" -> 8
      [] edge_type = "default" -> 10
      [] OTHER -> 10

\* edge.get('type', 'default')
TypeOrDefault(ty) == IF ty = NoType THEN "default" ELSE ty

\* G.add_edge(source, target, weight=weight, **edge): a new pair is appended to
\* the adjacency of both ends; a pair already present keeps its place and has
\* its attribute dict updated: the weight always, the type only when the edge
\* entry has one
AddEdge(g, u, v, ty) ==
    [attr |-> [g.attr EXCEPT ![<<u, v>>] =
                  [type |-> IF ty = NoType /\ g.attr[<<u, v>>] # NoEdge
                            THEN g.attr[<<u, v>>].type
                            ELSE ty,
                   weight |-> GetEdgeWeight(TypeOrDefault(ty)),
                   n |-> g.attr[<<u, v>>].n + 1]],
     succ |-> IF Contains(g.succ[u], v) THEN g.succ
              ELSE [g.succ EXCEPT ![u] = Append(@, v)],
     pred |-> IF Contains(g.pred[v], u) THEN g.pred
              ELSE [g.pred EXCEPT ![v] = Append(@, u)]]

InGraph(n) == n \in NodeIds

HasEdge(u, v) == InGraph(u) /\ InGraph(v) /\ graph.attr[<<u, v>>] # NoEdge

\* get_edge_data(u, v, {}).get('type')
EdgeType(u, v) == graph.attr[<<u, v>>].type

EdgeWeight(u, v) == graph.attr[<<u, v>>].weight

Edges == {p \in NodeIds \X NodeIds : graph.attr[p] # NoEdge}

\* graph.successors(u) / graph.predecessors(v), in adjacency order
Successors(u) == graph.succ[u]
Predecessors(v) == graph.pred[v]

\* graph.degree(n): in-degree plus out-degree (a self-loop counts twice)
Degree(n) == Len(graph.succ[n]) + Len(graph.pred[n])

\* get_all_topics / get_all_subtopics, as id lists in snapshot order
TopicIds ==
    LET ts == SelectSeq(nodes, LAMBDA n : n.type = "topic")
    IN [i \in 1..Len(ts) |-> ts[i].id]
SubtopicIds ==
    LET ss == SelectSeq(nodes, LAMBDA n : n.type = "subtopic")
    IN [i \in 1..Len(ss) |-> ss[i].id]

----------------------------------------------------------------------------
(* Loading.  The constructor (lines 34-43) reads the snapshot, builds the     *)
(* graph edge entry by edge entry and then clusters the topics; LoadEdge is  *)
(* one iteration of its edge loop and FinishLoad the rest of it.  Queries    *)
(* are taken only once it has finished, so every state a query sees is the   *)
(* state after constructing the analyzer from the entries read.              *)

NoCall == [op |-> "none", completed |-> <<>>, target |-> ""]
NoResult == [reason |-> "none", path |-> <<>>, distance |-> -1, exc |-> "",
             ran |-> <<>>]

\* GraphBuilder.build_graph writes a 'contains' edge from each topic to each of
\* its subtopics ahead of every other edge (graph_builder.py lines 61-82); the
\* gap analyzer's snapshot starts with that section, the path finder's snapshot
\* is any edge list
BuilderEdges(ns) ==
    IF ns = GapSnapshotNodes THEN {<<"t1", "s1">>, <<"t1", "s2">>} ELSE {}

RECURSIVE SumEntries(_)
SumEntries(ps) ==
    IF ps = {} THEN 0
    ELSE LET p == CHOOSE q \in ps : TRUE
         IN graph.attr[p].n + SumEntries(ps \ {p})

\* the number of entries of graph_data['edges'] the edge loop has read
EntriesRead == SumEntries(Edges)

\* one iteration of the edge loop of build_real_graph (lines 63-66)
LoadEdge(u, v, ty) ==
    /\ phase = "loading"
    /\ EntriesRead < MaxEdges + Cardinality(BuilderEdges(nodes))
    /\ graph' = AddEdge(graph, u, v, ty)
    /\ UNCHANGED <<nodes, clusters, phase, call, result, handler>>

\* the partitions of the topic list that the clustering can return: labels[i]
\* is the cluster of the i-th topic, clusters are numbered by first member
Labelings ==
    LET n == Len(TopicIds)
    IN {lab \in [1..n -> 1..n] :
          \A i \in 1..n : \/ \E j \in 1..(i - 1) : lab[j] = lab[i]
                          \/ lab[i] = Cardinality({lab[j] : j \in 1..(i - 1)}) + 1}

\* clusters[cluster_id].append(topic_id), topics taken in order (lines 160-164)
ClustersOf(lab) ==
    LET k == Cardinality({lab[i] : i \in 1..Len(TopicIds)})
    IN [c \in 1..k |->
          LET idx == SelectSeq([i \in 1..Len(TopicIds) |-> i], LAMBDA i : lab[i] = c)
          IN [j \in 1..Len(idx) |-> TopicIds[idx[j]]]]

\* the rest of __init__ after the graph is built: clustering (line 39)
FinishLoad ==
    /\ phase = "loading"
    /\ \E lab \in Labelings : clusters' = ClustersOf(lab)
    /\ phase' = "ready"
    /\ UNCHANGED <<nodes, graph, call, result, handler>>

----------------------------------------------------------------------------
(* Weighted shortest paths (networkx, as called at lines 205-206 and 273) *)

\* float('inf')
Inf == 1000000

\* one round of edge relaxation over the tentative distances d
Relax(d) ==
    [v \in NodeIds |->
        Min({d[v]} \cup {d[u] + EdgeWeight(u, v) :
                           u \in {x \in NodeIds : HasEdge(x, v) /\ d[x] < Inf}})]

RECURSIVE RelaxN(_, _)
RelaxN(d, n) == IF n = 0 THEN d ELSE RelaxN(Relax(d), n - 1)

\* nx.shortest_path_length(G, s, t, weight='weight') for s, t in G; Inf stands
\* for NetworkXNoPath
ShortestPathLength(s, t) ==
    RelaxN([v \in NodeIds |-> IF v = s THEN 0 ELSE Inf], Cardinality(NodeIds))[t]

\* P with every path of P extended by one edge to a node not yet on it
RECURSIVE ExtendPaths(_)
ExtendPaths(P) ==
    LET P2 == P \cup {Append(p, v) : <<p, v>> \in
                        {q \in P \X NodeIds :
                            HasEdge(q[1][Len(q[1])], q[2]) /\ ~Contains(q[1], q[2])}}
    IN IF P2 = P THEN P ELSE ExtendPaths(P2)

\* the simple paths of the graph from s to t, as node lists
SimplePaths(s, t) ==
    IF ~InGraph(s) THEN {}
    ELSE {p \in ExtendPaths({<<s>>}) : p[Len(p)] = t}

RECURSIVE PathWeight(_)
PathWeight(p) ==
    IF Len(p) <= 1 THEN 0
    ELSE EdgeWeight(p[1], p[2]) + PathWeight(Tail(p))

\* nx.shortest_path(G, s, t, weight='weight'): one path of minimum weight; which
\* one networkx returns among several of the same weight is not specified
ShortestPaths(s, t) ==
    {p \in SimplePaths(s, t) : PathWeight(p) = ShortestPathLength(s, t)}

\* get_distance_to_target (lines 270-275)
GetDistanceToTarget(node, target) == ShortestPathLength(node, target)

----------------------------------------------------------------------------
(* Path finder *)

\* mutant: 'sequence' edges are not followed
ChainTypes_PrerequisiteOnly == {"prerequisite"}

\* the edge types find_missing_prerequisites follows backwards (line 261)
ChainTypes == {"prerequisite", "sequence"}

\* missing.append(p) for each p of ps not yet in missing
RECURSIVE AppendNew(_, _)
AppendNew(missing, ps) ==
    IF ps = <<>> THEN missing
    ELSE AppendNew(IF Contains(missing, Head(ps)) THEN missing
                   ELSE Append(missing, Head(ps)),
                   Tail(ps))

\* the while loop of find_missing_prerequisites (lines 249-264)
RECURSIVE PrerequisiteBFS(_, _, _, _)
PrerequisiteBFS(queue, visited, missing, completed) ==
    IF queue = <<>> THEN missing
    ELSE LET current == Head(queue)
         IN IF current \in visited
            THEN PrerequisiteBFS(Tail(queue), visited, missing, completed)
            ELSE LET preds == SelectSeq(Predecessors(current),
                                  LAMBDA p : /\ EdgeType(p, current) \in ChainTypes
                                             /\ p \notin completed)
                 IN PrerequisiteBFS(Tail(queue) \o preds,
                                    visited \cup {current},
                                    AppendNew(missing, preds),
                                    completed)

\* mutant: the list is returned in discovery order, without the sort of line 267
FindMissingPrerequisites_Unsorted(completed, target) ==
    PrerequisiteBFS(<<target>>, completed, <<>>, completed)

\* find_missing_prerequisites (lines 243-268), for a target that is a node
FindMissingPrerequisites(completed, target) ==
    SortByKey(PrerequisiteBFS(<<target>>, completed, <<>>, completed),
              [n \in NodeIds |-> GetDistanceToTarget(n, target)])

\* mutant: a prerequisite counts as much as a subtopic
GetTopicComplexity_Unweighted(topic_id) ==
    LET subtopic_count ==
            Len(SelectSeq(Successors(topic_id), LAMBDA n : NodeType[n] = "subtopic"))
        prerequisite_count ==
            Len(SelectSeq(Predecessors(topic_id),
                          LAMBDA n : EdgeType(n, topic_id) = "prerequisite"))
    IN subtopic_count + prerequisite_count

\* get_topic_complexity (lines 298-305)
GetTopicComplexity(topic_id) ==
    LET subtopic_count ==
            Len(SelectSeq(Successors(topic_id), LAMBDA n : NodeType[n] = "subtopic"))
        prerequisite_count ==
            Len(SelectSeq(Predecessors(topic_id),
                          LAMBDA n : EdgeType(n, topic_id) = "prerequisite"))
    IN subtopic_count + prerequisite_count * 2

\* missing_in_cluster[:3] (line 296)
ClusterPathLimit == 3

\* find_cluster_based_path (lines 277-296)
FindClusterBasedPath(completed, target) ==
    LET holding == {c \in 1..Len(clusters) : Contains(clusters[c], target)}
    IN IF holding = {} THEN <<>>
       ELSE LET cluster_topics == clusters[Min(holding)]
                missing_in_cluster ==
                    SelectSeq(cluster_topics,
                              LAMBDA t : t \notin completed /\ t # target)
                sorted == SortByKey(missing_in_cluster,
                                    [n \in NodeIds |-> GetTopicComplexity(n)])
            IN SubSeq(sorted, 1, Min({ClusterPathLimit, Len(sorted)}))

\* a returned dict; distance is in tenths, -1 when the dict has no 'distance'
Returned(path, distance, reason, ran) ==
    [reason |-> reason, path |-> path, distance |-> distance, exc |-> "",
     ran |-> ran]

\* an exception that leaves the call
Raised(exc, ran) ==
    [reason |-> "raised", path |-> <<>>, distance |-> -1, exc |-> exc, ran |-> ran]

\* mutant: the loop keeps the path of any completed node that reaches the target
BestStarts_AnyReachable(completed, target) ==
    {c \in completed : ShortestPathLength(c, target) < Inf}

\* the completed nodes from which the direct-path loop keeps its best path:
\* those at the least distance from the target (lines 203-213)
BestStarts(completed, target) ==
    LET reach == {c \in completed : ShortestPathLength(c, target) < Inf}
    IN {c \in reach : \A d \in reach :
            ShortestPathLength(c, target) <= ShortestPathLength(d, target)}

\* the three strategies of find_optimal_learning_path (lines 199-241): the set
\* of results they can give
SearchStrategies(completed, target) ==
    IF completed # {} /\ (~InGraph(target) \/ \E c \in completed : ~InGraph(c))
    THEN \* nx.shortest_path on an id that is not a node of G
         {Raised("NodeNotFound", <<"direct">>)}
    ELSE IF ~InGraph(target)
    THEN \* graph.predecessors(target) in find_missing_prerequisites
         {Raised("NetworkXError", <<"direct", "prerequisite">>)}
    ELSE LET \* (path[1:], distance) of the starts the loop can keep as best
             best ==
                 {<<Tail(p), ShortestPathLength(c, target)>> :
                    <<c, p>> \in UNION {{c} \X ShortestPaths(c, target) :
                                          c \in BestStarts(completed, target)}}
             \* if best_path: an empty list counts as no path
             kept == {b \in best : b[1] # <<>>}
             missing_prerequisites == FindMissingPrerequisites(completed, target)
             cluster_path == FindClusterBasedPath(completed, target)
         IN IF kept # {}
            THEN {Returned(b[1], b[2], "direct_path", <<"direct">>) : b \in kept}
            ELSE IF missing_prerequisites # <<>>
            THEN {Returned(missing_prerequisites, 10 * Len(missing_prerequisites),
                           "prerequisite_chain", <<"direct", "prerequisite">>)}
            ELSE {Returned(cluster_path, 10 * Len(cluster_path), "cluster_based",
                           <<"direct", "prerequisite", "cluster">>)}

\* mutant: the test of line 196 is missing
FindOptimalLearningPath_NoShortCircuit(completed, target) ==
    SearchStrategies(completed, target)

\* find_optimal_learning_path (lines 192-241): the set of results the call can
\* have.  completed is the set of ids in completed_topics.
FindOptimalLearningPath(completed, target) ==
    IF target \in completed
    THEN {Returned(<<>>, -1, "already_completed", <<>>)}
    ELSE SearchStrategies(completed, target)

\* a call of find_optimal_learning_path on the loaded analyzer; completed is
\* the set of ids of the caller's completed_topics (the result does not depend
\* on repeats, and on the order only through which of several equally distant
\* starts is kept, which SearchStrategies leaves open)
FindPath(completed, target) ==
    /\ phase = "ready"
    /\ call = NoCall
    /\ call' = [op |-> "find_path", completed |-> completed, target |-> target]
    /\ \E r \in FindOptimalLearningPath(completed, target) : result' = r
    /\ UNCHANGED <<nodes, graph, clusters, phase, handler>>

----------------------------------------------------------------------------
(* Subtopic gap analyzer *)

\* mutant: the edge type is not looked at
GetAllSubtopicsForTopic_AnyEdge(topic_id) ==
    SelectSeq(Successors(topic_id), LAMBDA n : NodeType[n] = "subtopic")

\* get_all_subtopics_for_topic (lines 307-315), for a topic_id that is a node
GetAllSubtopicsForTopic(topic_id) ==
    SelectSeq(Successors(topic_id),
              LAMBDA n : NodeType[n] = "subtopic" /\ EdgeType(topic_id, n) = "contains")

\* mutant: a leads_to edge counts as any other edge
PriorityFrom_NoLeadsTo(completed_id, subtopic_id) ==
    (IF HasEdge(completed_id, subtopic_id)
     THEN CASE EdgeType(completed_id, subtopic_id) = "prerequisite" -> 30
            [] EdgeType(completed_id, subtopic_id) = "sequence" -> 20
            [] OTHER -> 10
     ELSE 0)
    + (IF HasEdge(subtopic_id, completed_id) THEN 5 ELSE 0)

\* what one completed id adds to the priority of subtopic_id (lines 514-528),
\* in tenths
PriorityFrom(completed_id, subtopic_id) ==
    (IF HasEdge(completed_id, subtopic_id)
     THEN CASE EdgeType(completed_id, subtopic_id) = "prerequisite" -> 30
            [] EdgeType(completed_id, subtopic_id) = "sequence" -> 20
            [] EdgeType(completed_id, subtopic_id) = "leads_to" -> 15
            [] OTHER -> 10
     ELSE 0)
    + (IF HasEdge(subtopic_id, completed_id) THEN 5 ELSE 0)

RECURSIVE SumPriority(_, _)
SumPriority(completed_subtopics, subtopic_id) ==
    IF completed_subtopics = <<>> THEN 0
    ELSE PriorityFrom(Head(completed_subtopics), subtopic_id)
         + SumPriority(Tail(completed_subtopics), subtopic_id)

\* calculate_subtopic_priority (lines 507-534), in tenths
CalculateSubtopicPriority(subtopic_id, completed_subtopics) ==
    SumPriority(completed_subtopics, subtopic_id) + Degree(subtopic_id)

\* the edge types find_prerequisite_subtopics accepts (line 551)
CrossTopicTypes == {"prerequisite", "sequence"}

\* find_prerequisite_subtopics (lines 536-555)
FindPrerequisiteSubtopics(target_topic_id, completed_subtopics) ==
    LET target_subtopics == GetAllSubtopicsForTopic(target_topic_id)
    IN SelectSeq(SubtopicIds,
                 LAMBDA s : /\ ~Contains(completed_subtopics, s)
                            /\ ~Contains(target_subtopics, s)
                            /\ \E i \in 1..Len(target_subtopics) :
                                  /\ HasEdge(s, target_subtopics[i])
                                  /\ EdgeType(s, target_subtopics[i]) \in CrossTopicTypes)

\* missing_with_priority after its sort(key=priority, reverse=True): the order
\* in which the missing subtopics are printed (lines 476-485)
MissingWithPriority(missing_in_target, completed_subtopics) ==
    SortByKey(missing_in_target,
              [n \in NodeIds |-> 0 - CalculateSubtopicPriority(n, completed_subtopics)])

\* analyze_subtopic_learning_gaps (lines 445-505); completed_subtopics is the
\* list the caller passes, e.g. known_concept_ids of
\* IntegratedChatHandler.find_learning_gaps
AnalyzeSubtopicLearningGaps(completed_subtopics, target_topic_id) ==
    IF ~InGraph(target_topic_id)
    THEN \* graph.successors(target_topic_id) on an id that is not a node
         Raised("NetworkXError", <<>>)
    ELSE LET target_subtopics == GetAllSubtopicsForTopic(target_topic_id)
             completed_in_target ==
                 SelectSeq(completed_subtopics, LAMBDA x : Contains(target_subtopics, x))
             missing_in_target ==
                 SelectSeq(target_subtopics, LAMBDA x : ~Contains(completed_subtopics, x))
         IN [reason |-> "gaps",
             exc |-> "",
             target_subtopics |-> target_subtopics,
             completed_in_target |-> completed_in_target,
             missing_in_target |-> missing_in_target,
             printed |-> MissingWithPriority(missing_in_target, completed_subtopics),
             \* the priority printed with each of them (line 484), in tenths
             printed_priority |->
                 LET printed == MissingWithPriority(missing_in_target, completed_subtopics)
                 IN [i \in 1..Len(printed) |->
                        CalculateSubtopicPriority(printed[i], completed_subtopics)],
             prerequisite_subtopics |->
                 FindPrerequisiteSubtopics(target_topic_id, completed_subtopics),
             \* len(completed_in_target) / len(target_subtopics) * 100, else 0
             completion_percentage |->
                 IF target_subtopics # <<>>
                 THEN [num |-> 100 * Len(completed_in_target),
                       den |-> Len(target_subtopics)]
                 ELSE [num |-> 0, den |-> 1]]

\* a call of analyze_subtopic_learning_gaps on the loaded analyzer
AnalyzeGaps(completed_subtopics, target_topic_id) ==
    /\ phase = "ready"
    /\ call = NoCall
    /\ call' = [op |-> "analyze_gaps", completed |-> completed_subtopics,
                target |-> target_topic_id]
    /\ result' = AnalyzeSubtopicLearningGaps(completed_subtopics, target_topic_id)
    /\ UNCHANGED <<nodes, graph, clusters, phase, handler>>

\* the caller takes the result; the analyzer is ready for the next query
Return ==
    /\ call # NoCall
    /\ call' = NoCall
    /\ result' = NoResult
    /\ UNCHANGED <<nodes, graph, clusters, phase, handler>>

----------------------------------------------------------------------------
(* Name lookup.  A name is the sequence of its characters. *)

\* the characters of the names asked of find_node_by_name: two letters in
\* both cases, and the blank
Alphabet == {"a", "b", "A", "B", " "}

UpperCase ==
    <<"A", "B", "C", "D", "E", "F", "G", "H", "I", "J", "K", "L", "M",
      "N", "O", "P", "Q", "R", "S", "T", "U", "V", "W", "X", "Y", "Z">>
LowerCase ==
    <<"a", "b", "c", "d", "e", "f", "g", "h", "i", "j", "k", "l", "m",
      "n", "o", "p", "q", "r", "s", "t", "u", "v", "w", "x", "y", "z">>

\* str.lower(), character by character
LowerChar(c) ==
    IF \E i \in 1..Len(UpperCase) : UpperCase[i] = c
    THEN LowerCase[CHOOSE i \in 1..Len(UpperCase) : UpperCase[i] = c]
    ELSE c
Lower(name) == [i \in 1..Len(name) |-> LowerChar(name[i])]

\* str.strip(): leading and trailing blanks removed
RECURSIVE Strip(_)
Strip(name) ==
    IF name = <<>> THEN <<>>
    ELSE IF Head(name) = " " THEN Strip(Tail(name))
    ELSE IF name[Len(name)] = " " THEN Strip(SubSeq(name, 1, Len(name) - 1))
    ELSE name

\* a in b, for strings
IsSubstring(a, b) ==
    \E i \in 1..(Len(b) - Len(a) + 1) : SubSeq(b, i, i + Len(a) - 1) = a

\* a dict as the list of its (key, value) items in insertion order; d[k] = v:
\* a key already present keeps its place and takes the new value
DictSet(d, k, v) ==
    IF \E i \in 1..Len(d) : d[i][1] = k
    THEN [i \in 1..Len(d) |-> IF d[i][1] = k THEN <<k, v>> ELSE d[i]]
    ELSE Append(d, <<k, v>>)

\* {node['name'].lower(): node['id'] for node in ns}, onto the dict d
RECURSIVE NameToId(_, _)
NameToId(d, ns) ==
    IF ns = <<>> THEN d
    ELSE NameToId(DictSet(d, Lower(Head(ns).name), Head(ns).id), Tail(ns))

\* self.topic_name_to_id, self.subtopic_name_to_id (lines 40-41)
TopicNameToId == NameToId(<<>>, SelectSeq(nodes, LAMBDA n : n.type = "topic"))
SubtopicNameToId == NameToId(<<>>, SelectSeq(nodes, LAMBDA n : n.type = "subtopic"))

\* {**d, **e}
RECURSIVE DictMerge(_, _)
DictMerge(d, e) ==
    IF e = <<>> THEN d ELSE DictMerge(DictSet(d, Head(e)[1], Head(e)[2]), Tail(e))

\* mutant: the topic names are merged over the subtopic names
AllNameToId_TopicsLast == DictMerge(SubtopicNameToId, TopicNameToId)

\* self.all_name_to_id (line 42)
AllNameToId == DictMerge(TopicNameToId, SubtopicNameToId)

\* mutant: of several shortest matches the last one is taken
BestMatch_LastShortest(matches) ==
    LET i == CHOOSE i \in 1..Len(matches) :
                /\ \A j \in 1..Len(matches) : Len(matches[i][1]) <= Len(matches[j][1])
                /\ \A j \in (i + 1)..Len(matches) : Len(matches[i][1]) < Len(matches[j][1])
    IN matches[i]

\* min(matches, key=lambda x: len(x[0])): the first of the shortest
BestMatch(matches) ==
    LET i == CHOOSE i \in 1..Len(matches) :
                /\ \A j \in 1..Len(matches) : Len(matches[i][1]) <= Len(matches[j][1])
                /\ \A j \in 1..(i - 1) : Len(matches[i][1]) < Len(matches[j][1])
    IN matches[i]

\* find_node_by_name (lines 169-190); "None" stands for None
FindNodeByName(name) ==
    LET name_lower == Strip(Lower(name))
        exact == SelectSeq(AllNameToId, LAMBDA e : e[1] = name_lower)
        matches == SelectSeq(AllNameToId,
                             LAMBDA e : \/ IsSubstring(name_lower, e[1])
                                        \/ IsSubstring(e[1], name_lower))
    IN IF exact # <<>> THEN exact[1][2]
       ELSE IF Len(matches) = 1 THEN matches[1][2]
       ELSE IF Len(matches) > 1 THEN BestMatch(matches)[2]
       ELSE "None"

\* a call of find_node_by_name on the loaded analyzer
FindNode(name) ==
    /\ phase = "ready"
    /\ call = NoCall
    /\ call' = [op |-> "find_node", completed |-> <<>>, target |-> name]
    /\ result' = [reason |-> "node", exc |-> "", id |-> FindNodeByName(name)]
    /\ UNCHANGED <<nodes, graph, clusters, phase, handler>>

----------------------------------------------------------------------------
(* Calls in progress.  server.py keeps one handler, and so one analyzer, for  *)
(* every request; a call of find_optimal_learning_path or of                  *)
(* analyze_subtopic_learning_gaps is taken here one statement group at a      *)
(* time, each group reading self.graph and self.clusters as they are when it  *)
(* runs, so that the groups of several calls interleave.                      *)

\* the callers that can have a call in progress
Callers == {"c1", "c2"}

Running(t) == t \in DOMAIN threads

\* the frame of a call: its arguments, the statement group it is at and the
\* local variables it has assigned
Frame(op, completed, target, pc, locals) ==
    [op |-> op, completed |-> completed, target |-> target, pc |-> pc,
     locals |-> locals, result |-> NoResult]

SetThread(t, frame) ==
    [x \in DOMAIN threads \cup {t} |-> IF x = t THEN frame ELSE threads[x]]

\* the call of t moves to statement group pc
Goto(t, pc) == SetThread(t, [threads[t] EXCEPT !.pc = pc])

\* the call of t reaches its return statement with result r
ReturnFrom(t, r) == SetThread(t, [threads[t] EXCEPT !.pc = "done", !.result = r])

\* a caller enters find_optimal_learning_path (line 192)
StartPath(t, completed, target) ==
    /\ phase = "ready"
    /\ ~Running(t)
    /\ threads' = SetThread(t, Frame("find_path", completed, target, "start", <<>>))
    /\ UNCHANGED <<nodes, graph, clusters, phase, call, result, session, profile>>

\* if target_topic in completed_topics (lines 196-197)
CheckCompleted(t) ==
    /\ Running(t)
    /\ threads[t].pc = "start"
    /\ threads' = IF threads[t].target \in threads[t].completed
                  THEN ReturnFrom(t, Returned(<<>>, -1, "already_completed", <<>>))
                  ELSE Goto(t, "direct")
    /\ UNCHANGED <<nodes, graph, clusters, phase, call, result, session, profile>>

\* Method 1 (lines 199-220): the results it can return; none when best_path
\* stays empty
DirectPathResults(completed, target) ==
    IF completed # {} /\ (~InGraph(target) \/ \E c \in completed : ~InGraph(c))
    THEN {Raised("NodeNotFound", <<"direct">>)}
    ELSE {Returned(Tail(p), ShortestPathLength(c, target), "direct_path", <<"direct">>) :
            <<c, p>> \in {q \in UNION {{c} \X ShortestPaths(c, target) :
                                         c \in BestStarts(completed, target)} :
                             Tail(q[2]) # <<>>}}

DirectPath(t) ==
    /\ Running(t)
    /\ threads[t].pc = "direct"
    /\ LET found == DirectPathResults(threads[t].completed, threads[t].target)
       IN IF found = {} THEN threads' = Goto(t, "prerequisite")
          ELSE \E r \in found : threads' = ReturnFrom(t, r)
    /\ UNCHANGED <<nodes, graph, clusters, phase, call, result, session, profile>>

\* Method 2 (lines 222-231)
PrerequisiteResults(completed, target) ==
    IF ~InGraph(target)
    THEN {Raised("NetworkXError", <<"direct", "prerequisite">>)}
    ELSE LET missing_prerequisites == FindMissingPrerequisites(completed, target)
         IN IF missing_prerequisites = <<>> THEN {}
            ELSE {Returned(missing_prerequisites, 10 * Len(missing_prerequisites),
                           "prerequisite_chain", <<"direct", "prerequisite">>)}

PrerequisiteChain(t) ==
    /\ Running(t)
    /\ threads[t].pc = "prerequisite"
    /\ LET found == PrerequisiteResults(threads[t].completed, threads[t].target)
       IN IF found = {} THEN threads' = Goto(t, "cluster")
          ELSE \E r \in found : threads' = ReturnFrom(t, r)
    /\ UNCHANGED <<nodes, graph, clusters, phase, call, result, session, profile>>

\* mutant: the sort of line 294 is done on the cluster's own list
ClustersAfterSort_InPlace(target) ==
    LET holding == {c \in 1..Len(clusters) : Contains(clusters[c], target)}
    IN IF holding = {} THEN clusters
       ELSE [clusters EXCEPT ![Min(holding)] =
                SortByKey(@, [n \in NodeIds |-> GetTopicComplexity(n)])]

\* self.clusters after find_cluster_based_path: line 291 builds the list that
\* line 294 sorts, so the cluster's own list stays as it was
ClustersAfterSort(target) == clusters

\* Method 3 (lines 233-241, with find_cluster_based_path, lines 277-296)
ClusterBased(t) ==
    /\ Running(t)
    /\ threads[t].pc = "cluster"
    /\ LET cluster_path == FindClusterBasedPath(threads[t].completed, threads[t].target)
       IN threads' = ReturnFrom(t, Returned(cluster_path, 10 * Len(cluster_path),
                                           "cluster_based",
                                           <<"direct", "prerequisite", "cluster">>))
    /\ clusters' = ClustersAfterSort(threads[t].target)
    /\ UNCHANGED <<nodes, graph, phase, call, result, session, profile>>

\* a caller enters analyze_subtopic_learning_gaps (line 445)
StartGaps(t, completed_subtopics, target_topic_id) ==
    /\ phase = "ready"
    /\ ~Running(t)
    /\ threads' = SetThread(t, Frame("analyze_gaps", completed_subtopics,
                                    target_topic_id, "subtopics", <<>>))
    /\ UNCHANGED <<nodes, graph, clusters, phase, call, result, session, profile>>

\* target_subtopics = self.get_all_subtopics_for_topic(...) (lines 452-453)
TargetSubtopics(t) ==
    /\ Running(t)
    /\ threads[t].pc = "subtopics"
    /\ threads' =
          IF ~InGraph(threads[t].target)
          THEN ReturnFrom(t, Raised("NetworkXError", <<>>))
          ELSE SetThread(t, [threads[t] EXCEPT
                   !.pc = "split",
                   !.locals = [target_subtopics |->
                                  GetAllSubtopicsForTopic(threads[t].target)]])
    /\ UNCHANGED <<nodes, graph, clusters, phase, call, result, session, profile>>

\* completed_in_target and missing_in_target (lines 460-461)
SplitCompleted(t) ==
    /\ Running(t)
    /\ threads[t].pc = "split"
    /\ LET target_subtopics == threads[t].locals.target_subtopics
           completed_subtopics == threads[t].completed
       IN threads' = SetThread(t, [threads[t] EXCEPT
              !.pc = "priority",
              !.locals = [target_subtopics |-> target_subtopics,
                          completed_in_target |->
                              SelectSeq(completed_subtopics,
                                        LAMBDA x : Contains(target_subtopics, x)),
                          missing_in_target |->
                              SelectSeq(target_subtopics,
                                        LAMBDA x : ~Contains(completed_subtopics, x))]])
    /\ UNCHANGED <<nodes, graph, clusters, phase, call, result, session, profile>>

\* missing_with_priority and its sort (lines 473-486)
SortMissing(t) ==
    /\ Running(t)
    /\ threads[t].pc = "priority"
    /\ LET l == threads[t].locals
           printed == MissingWithPriority(l.missing_in_target, threads[t].completed)
       IN threads' = SetThread(t, [threads[t] EXCEPT
              !.pc = "prerequisites",
              !.locals = [target_subtopics |-> l.target_subtopics,
                          completed_in_target |-> l.completed_in_target,
                          missing_in_target |-> l.missing_in_target,
                          printed |-> printed,
                          printed_priority |->
                              [i \in 1..Len(printed) |->
                                  CalculateSubtopicPriority(printed[i],
                                                            threads[t].completed)]]])
    /\ UNCHANGED <<nodes, graph, clusters, phase, call, result, session, profile>>

\* prerequisite_subtopics and the returned dict (lines 488-505)
PrerequisiteSubtopics(t) ==
    /\ Running(t)
    /\ threads[t].pc = "prerequisites"
    /\ LET l == threads[t].locals
       IN threads' = ReturnFrom(t,
              [reason |-> "gaps",
               exc |-> "",
               target_subtopics |-> l.target_subtopics,
               completed_in_target |-> l.completed_in_target,
               missing_in_target |-> l.missing_in_target,
               printed |-> l.printed,
               printed_priority |-> l.printed_priority,
               prerequisite_subtopics |->
                   FindPrerequisiteSubtopics(threads[t].target, threads[t].completed),
               completion_percentage |->
                   IF l.target_subtopics # <<>>
                   THEN [num |-> 100 * Len(l.completed_in_target),
                         den |-> Len(l.target_subtopics)]
                   ELSE [num |-> 0, den |-> 1]])
    /\ UNCHANGED <<nodes, graph, clusters, phase, call, result, session, profile>>

\* the caller takes the result of its call
Finish(t) ==
    /\ Running(t)
    /\ threads[t].pc = "done"
    /\ threads' = [x \in DOMAIN threads \ {t} |-> threads[x]]
    /\ UNCHANGED <<nodes, graph, clusters, phase, call, result, session, profile>>

----------------------------------------------------------------------------
(* The prerequisite search step by step: find_missing_prerequisites (lines   *)
(* 243-268) as a call in progress, one iteration of its while loop at a time *)

\* a caller enters find_missing_prerequisites (lines 245-247); expanded is
\* history only: the nodes whose predecessors the for loop of line 257 has
\* gone through, in order
StartSearch(t, completed, target) ==
    /\ phase = "ready"
    /\ ~Running(t)
    /\ threads' = SetThread(t, Frame("find_missing_prerequisites", completed, target,
                                     "while",
                                     [missing |-> <<>>, visited |-> completed,
                                      queue |-> <<target>>, expanded |-> <<>>]))
    /\ UNCHANGED <<nodes, graph, clusters, phase, call, result, session, profile>>

\* mutant: the node popped is not remembered
MarkVisited_Forgets(visited, current) == visited

\* visited.add(current) (line 254)
MarkVisited(visited, current) == visited \cup {current}

\* one iteration of the while loop (lines 249-264)
SearchStep(t) ==
    /\ Running(t)
    /\ threads[t].op = "find_missing_prerequisites"
    /\ threads[t].pc = "while"
    /\ threads[t].locals.queue # <<>>
    /\ LET l == threads[t].locals
           current == Head(l.queue)
           preds == SelectSeq(Predecessors(current),
                              LAMBDA p : /\ EdgeType(p, current) \in ChainTypes
                                         /\ p \notin threads[t].completed)
       IN threads' = SetThread(t, [threads[t] EXCEPT !.locals =
             IF current \in l.visited
             THEN [l EXCEPT !.queue = Tail(l.queue)]
             ELSE [missing |-> AppendNew(l.missing, preds),
                   visited |-> MarkVisited(l.visited, current),
                   queue |-> Tail(l.queue) \o preds,
                   expanded |-> Append(l.expanded, current)]])
    /\ UNCHANGED <<nodes, graph, clusters, phase, call, result, session, profile>>

\* the queue is empty: missing is sorted and returned (lines 266-268)
SearchReturn(t) ==
    /\ Running(t)
    /\ threads[t].op = "find_missing_prerequisites"
    /\ threads[t].pc = "while"
    /\ threads[t].locals.queue = <<>>
    /\ threads' = ReturnFrom(t, Returned(
                      SortByKey(threads[t].locals.missing,
                                [n \in NodeIds |-> GetDistanceToTarget(n, threads[t].target)]),
                      -1, "missing_prerequisites", <<>>))
    /\ UNCHANGED <<nodes, graph, clusters, phase, call, result, session, profile>>

----------------------------------------------------------------------------
(* Chat handler (integrated_chat_handler.py).  A message, a pattern and a    *)
(* node name are the sequences of their characters.                           *)

\* str.split(): the words between the blanks
RECURSIVE Split(_)
Split(s) ==
    LET t == Strip(s)
        blanks == {i \in 1..Len(t) : t[i] = " "}
    IN IF t = <<>> THEN <<>>
       ELSE IF blanks = {} THEN <<t>>
       ELSE <<SubSeq(t, 1, Min(blanks) - 1)>> \o Split(SubSeq(t, Min(blanks) + 1, Len(t)))

\* a.startswith(b)
StartsWith(a, b) == Len(b) <= Len(a) /\ SubSeq(a, 1, Len(b)) = b

\* any(pattern in query for pattern in patterns)
AnyIn(patterns, query) == \E p \in patterns : IsSubstring(p, query)

\* next_topic_patterns (lines 229-232)
NextTopicPatterns ==
    {<<"n", "e", "x", "t", " ", "t", "o", "p", "i", "c">>, <<"n", "e", "x", "t", " ", "s", "t", "e", "p">>,
     <<"w", "h", "a", "t", "'", "s", " ", "n", "e", "x", "t">>, <<"c", "o", "n", "t", "i", "n", "u", "e">>,
     <<"m", "o", "v", "e", " ", "o", "n">>, <<"p", "r", "o", "c", "e", "e", "d">>,
     <<"g", "o", " ", "t", "o", " ", "n", "e", "x", "t">>, <<"a", "d", "v", "a", "n", "c", "e">>,
     <<"r", "e", "a", "d", "y", " ", "f", "o", "r", " ", "n", "e", "x", "t">>,
     <<"n", "e", "x", "t", " ", "l", "e", "s", "s", "o", "n">>}

\* understanding_patterns (lines 234-238)
UnderstandingPatterns ==
    {<<"y", "e", "s">>, <<"g", "o", "t", " ", "i", "t">>, <<"u", "n", "d", "e", "r", "s", "t", "a", "n", "d">>,
     <<"c", "l", "e", "a", "r">>, <<"m", "a", "k", "e", "s", " ", "s", "e", "n", "s", "e">>,
     <<"i", " ", "k", "n", "o", "w">>, <<"l", "e", "a", "r", "n", "e", "d">>,
     <<"u", "n", "d", "e", "r", "s", "t", "o", "o", "d">>, <<"o", "k">>, <<"o", "k", "a", "y">>,
     <<"r", "i", "g", "h", "t">>, <<"c", "o", "r", "r", "e", "c", "t">>, <<"g", "o", "o", "d">>,
     <<"t", "h", "a", "n", "k", "s">>,
     <<"i", " ", "u", "n", "d", "e", "r", "s", "t", "a", "n", "d", " ", "t", "h", "i", "s", " ", "t", "o", "p", "i", "c">>,
     <<"i", " ", "g", "e", "t", " ", "i", "t">>}

\* more_explanation_patterns (lines 240-244)
MoreExplanationPatterns ==
    {<<"n", "o">>, <<"d", "o", "n", "'", "t", " ", "u", "n", "d", "e", "r", "s", "t", "a", "n", "d">>,
     <<"c", "o", "n", "f", "u", "s", "e", "d">>,
     <<"e", "x", "p", "l", "a", "i", "n", " ", "m", "o", "r", "e">>,
     <<"n", "o", "t", " ", "c", "l", "e", "a", "r">>,
     <<"c", "a", "n", " ", "y", "o", "u", " ", "e", "x", "p", "l", "a", "i", "n">>,
     <<"i", " ", "d", "o", "n", "'", "t", " ", "g", "e", "t", " ", "i", "t">>,
     <<"m", "o", "r", "e", " ", "d", "e", "t", "a", "i", "l", "s">>,
     <<"e", "l", "a", "b", "o", "r", "a", "t", "e">>, <<"n", "e", "e", "d", " ", "h", "e", "l", "p">>,
     <<"s", "t", "i", "l", "l", " ", "c", "o", "n", "f", "u", "s", "e", "d">>,
     <<"m", "o", "r", "e", " ", "e", "x", "a", "m", "p", "l", "e", "s">>,
     <<"i", " ", "n", "e", "e", "d", " ", "m", "o", "r", "e", " ", "e", "x", "p", "l", "a", "n", "a", "t", "i", "o", "n">>}

\* completion_patterns (lines 246-249)
CompletionPatterns ==
    {<<"i", "'", "m", " ", "d", "o", "n", "e">>, <<"c", "o", "m", "p", "l", "e", "t", "e", "d">>,
     <<"f", "i", "n", "i", "s", "h", "e", "d">>, <<"m", "a", "s", "t", "e", "r", "e", "d">>,
     <<"r", "e", "a", "d", "y", " ", "t", "o", " ", "m", "o", "v", "e", " ", "o", "n">>,
     <<"i", " ", "k", "n", "o", "w", " ", "t", "h", "i", "s", " ", "n", "o", "w">>,
     <<"l", "e", "a", "r", "n", "e", "d", " ", "t", "h", "i", "s">>,
     <<"u", "n", "d", "e", "r", "s", "t", "a", "n", "d", " ", "t", "h", "i", "s", " ", "t", "o", "p", "i", "c">>}

\* satisfaction_patterns (lines 251-255)
SatisfactionPatterns ==
    {<<"s", "a", "t", "i", "s", "f", "i", "e", "d">>,
     <<"g", "o", "o", "d", " ", "e", "n", "o", "u", "g", "h">>, <<"r", "e", "a", "d", "y">>,
     <<"c", "o", "n", "f", "i", "d", "e", "n", "t">>,
     <<"c", "o", "m", "f", "o", "r", "t", "a", "b", "l", "e">>,
     <<"i", " ", "a", "m", " ", "s", "a", "t", "i", "s", "f", "i", "e", "d">>,
     <<"a", "d", "d", " ", "t", "o", " ", "p", "r", "o", "f", "i", "l", "e">>,
     <<"a", "d", "d", " ", "t", "o", " ", "m", "y", " ", "p", "r", "o", "f", "i", "l", "e">>,
     <<"i", " ", "a", "m", " ", "s", "a", "t", "i", "s", "f", "i", "e", "d", " ", "w", "i", "t", "h", " ", "t", "h", "i", "s", " ", "t", "o", "p", "i", "c">>,
     <<"r", "e", "a", "d", "y", " ", "t", "o", " ", "a", "d", "d", " ", "i", "t", " ", "t", "o", " ", "m", "y", " ", "p", "r", "o", "f", "i", "l", "e">>}

\* confirmation_patterns (lines 257-259)
ConfirmationPatterns ==
    {<<"y", "e", "s">>, <<"y", "e", "a", "h">>, <<"y", "e", "p">>, <<"s", "u", "r", "e">>,
     <<"o", "f", " ", "c", "o", "u", "r", "s", "e">>, <<"d", "e", "f", "i", "n", "i", "t", "e", "l", "y">>,
     <<"a", "b", "s", "o", "l", "u", "t", "e", "l", "y">>}

\* no_help_patterns (lines 261-263)
NoHelpPatterns ==
    {<<"n", "o">>, <<"n", "o", "p", "e">>, <<"n", "o", "t", " ", "r", "e", "a", "l", "l", "y">>,
     <<"i", "'", "m", " ", "g", "o", "o", "d">>, <<"n", "o", " ", "t", "h", "a", "n", "k", "s">>,
     <<"n", "o", " ", "n", "e", "e", "d">>}

\* detect_learning_intents (lines 213-301), on the lowercased query
DetectLearningIntents(query) ==
    [wants_next_topic |-> AnyIn(NextTopicPatterns, query),
     confirms_understanding |-> AnyIn(UnderstandingPatterns, query),
     needs_more_explanation |-> AnyIn(MoreExplanationPatterns, query),
     wants_to_complete_topic |-> AnyIn(CompletionPatterns, query),
     satisfied_with_topic |-> AnyIn(SatisfactionPatterns, query),
     wants_confirmation |-> AnyIn(ConfirmationPatterns, query),
     says_no_need_help |-> AnyIn(NoHelpPatterns, query)]

\* small_talk_keywords (lines 114-118)
SmallTalkKeywords ==
    {<<"h", "e", "l", "l", "o">>, <<"h", "i">>, <<"h", "e", "y">>,
     <<"g", "o", "o", "d", " ", "m", "o", "r", "n", "i", "n", "g">>,
     <<"g", "o", "o", "d", " ", "a", "f", "t", "e", "r", "n", "o", "o", "n">>,
     <<"g", "o", "o", "d", " ", "e", "v", "e", "n", "i", "n", "g">>,
     <<"h", "o", "w", " ", "a", "r", "e", " ", "y", "o", "u">>,
     <<"w", "h", "a", "t", "'", "s", " ", "u", "p">>, <<"t", "h", "a", "n", "k", "s">>,
     <<"t", "h", "a", "n", "k", " ", "y", "o", "u">>, <<"b", "y", "e">>, <<"g", "o", "o", "d", "b", "y", "e">>,
     <<"n", "i", "c", "e">>, <<"c", "o", "o", "l">>, <<"a", "w", "e", "s", "o", "m", "e">>,
     <<"g", "r", "e", "a", "t">>, <<"w", "h", "o", " ", "a", "r", "e", " ", "y", "o", "u">>,
     <<"w", "h", "a", "t", " ", "c", "a", "n", " ", "y", "o", "u", " ", "d", "o">>}

\* the greetings of line 125
Greetings ==
    {<<"h", "e", "l", "l", "o">>, <<"h", "i">>, <<"h", "e", "y">>, <<"t", "h", "a", "n", "k", "s">>,
     <<"b", "y", "e">>}

\* the keywords that are small talk in a query of any length (line 128)
SmallTalkPhrases ==
    {<<"h", "o", "w", " ", "a", "r", "e", " ", "y", "o", "u">>,
     <<"w", "h", "a", "t", "'", "s", " ", "u", "p">>,
     <<"w", "h", "o", " ", "a", "r", "e", " ", "y", "o", "u">>,
     <<"w", "h", "a", "t", " ", "c", "a", "n", " ", "y", "o", "u", " ", "d", "o">>}

\* dsa_indicators (lines 133-139)
DsaIndicators ==
    {<<"l", "e", "a", "r", "n">>, <<"a", "l", "g", "o", "r", "i", "t", "h", "m">>,
     <<"d", "a", "t", "a", " ", "s", "t", "r", "u", "c", "t", "u", "r", "e">>, <<"a", "r", "r", "a", "y">>,
     <<"t", "r", "e", "e">>, <<"g", "r", "a", "p", "h">>, <<"s", "o", "r", "t">>,
     <<"s", "e", "a", "r", "c", "h">>, <<"s", "t", "a", "c", "k">>, <<"q", "u", "e", "u", "e">>,
     <<"h", "e", "a", "p">>, <<"h", "a", "s", "h">>, <<"l", "i", "n", "k", "e", "d", " ", "l", "i", "s", "t">>,
     <<"b", "i", "n", "a", "r", "y">>,
     <<"d", "y", "n", "a", "m", "i", "c", " ", "p", "r", "o", "g", "r", "a", "m", "m", "i", "n", "g">>,
     <<"r", "e", "c", "u", "r", "s", "i", "o", "n">>, <<"c", "o", "m", "p", "l", "e", "x", "i", "t", "y">>,
     <<"b", "i", "g", " ", "o">>,
     <<"t", "i", "m", "e", " ", "c", "o", "m", "p", "l", "e", "x", "i", "t", "y">>,
     <<"s", "p", "a", "c", "e", " ", "c", "o", "m", "p", "l", "e", "x", "i", "t", "y">>,
     <<"w", "h", "a", "t", " ", "i", "s">>, <<"w", "h", "a", "t", " ", "a", "r", "e">>,
     <<"h", "o", "w", " ", "t", "o">>, <<"e", "x", "p", "l", "a", "i", "n">>,
     <<"u", "n", "d", "e", "r", "s", "t", "a", "n", "d">>, <<"i", "m", "p", "l", "e", "m", "e", "n", "t">>,
     <<"c", "o", "d", "e">>, <<"e", "x", "a", "m", "p", "l", "e">>, <<"t", "u", "t", "o", "r", "i", "a", "l">>,
     <<"d", "i", "f", "f", "e", "r", "e", "n", "c", "e", " ", "b", "e", "t", "w", "e", "e", "n">>,
     <<"c", "o", "m", "p", "a", "r", "i", "s", "o", "n">>, <<"v", "s">>, <<"v", "e", "r", "s", "u", "s">>}

\* the length up to which a query with a greeting is small talk (line 125)
ShortQuery == 20

\* is_small_talk of analyze_user_query (lines 113-142)
IsSmallTalk(query_lower) ==
    /\ \E keyword \in SmallTalkKeywords :
          /\ IsSubstring(keyword, query_lower)
          /\ \/ Len(Strip(query_lower)) <= ShortQuery /\ AnyIn(Greetings, query_lower)
             \/ keyword \in SmallTalkPhrases
    /\ ~AnyIn(DsaIndicators, query_lower)

\* self.graph_analyzer is set: the analyzer was constructed (lines 59-73)
HasAnalyzer == phase = "ready"

\* the topic nodes of the snapshot with this name up to letter case, in
\* snapshot order (lines 155-159 and 747-755 take the first)
TopicNodesNamed(name) ==
    SelectSeq(nodes, LAMBDA n : n.type = "topic" /\ Lower(n.name) = Lower(name))

\* required_subtopics (lines 163-167)
RequiredSubtopics(topic_node) ==
    {Lower(nodes[i].name) :
        i \in {j \in 1..Len(nodes) : /\ nodes[j].type = "subtopic"
                                     /\ nodes[j].parent_topic = topic_node.id}}

\* truly_known_topics (lines 145-171): the profile's topics of which the user
\* knows every subtopic the graph lists
RECURSIVE TrulyKnownTopics(_)
TrulyKnownTopics(topics_data) ==
    IF topics_data = <<>> THEN <<>>
    ELSE LET topic_data == Head(topics_data)
             found == TopicNodesNamed(topic_data.name)
             user_subtopics ==
                 {Lower(topic_data.subtopics[i]) : i \in 1..Len(topic_data.subtopics)}
         IN (IF /\ found # <<>>
                /\ RequiredSubtopics(found[1]) # {}
                /\ RequiredSubtopics(found[1]) \subseteq user_subtopics
             THEN <<topic_data.name>> ELSE <<>>)
            \o TrulyKnownTopics(Tail(topics_data))

\* known_subtopics (lines 146, 173-174)
RECURSIVE KnownSubtopics(_)
KnownSubtopics(topics_data) ==
    IF topics_data = <<>> THEN <<>>
    ELSE (IF TopicNodesNamed(Head(topics_data).name) # <<>>
          THEN Head(topics_data).subtopics ELSE <<>>)
         \o KnownSubtopics(Tail(topics_data))

\* the test of lines 190-195: the query mentions the node
Mentions(query_lower, node) ==
    LET node_name == Lower(node.name)
        query_words == Range(Split(query_lower))
    IN \/ IsSubstring(node_name, query_lower)
       \/ \E keyword \in node.keywords : IsSubstring(Lower(keyword), query_lower)
       \/ \E word \in query_words : Len(word) > 3 /\ IsSubstring(word, node_name)
       \/ \E word \in query_words :
             /\ Len(word) > 4
             /\ StartsWith(node_name, word) \/ StartsWith(word, node_name)

\* analyze_user_query (lines 106-211) for a profile that has 'knownConcepts'
AnalyzeUserQuery(query, user_profile) ==
    LET query_lower == Lower(query)
        is_small_talk == IsSmallTalk(query_lower)
        mentioned ==
            IF HasAnalyzer /\ ~is_small_talk
            THEN SelectSeq(nodes, LAMBDA n : Mentions(query_lower, n))
            ELSE <<>>
    IN [is_small_talk |-> is_small_talk,
        learning_intent |-> DetectLearningIntents(query_lower),
        truly_known_topics |->
            IF HasAnalyzer THEN TrulyKnownTopics(user_profile.topics) ELSE <<>>,
        known_subtopics |->
            IF HasAnalyzer THEN KnownSubtopics(user_profile.topics) ELSE <<>>,
        mentioned_topics |-> SelectSeq(mentioned, LAMBDA n : n.type = "topic"),
        mentioned_subtopics |-> SelectSeq(mentioned, LAMBDA n : n.type # "topic"),
        is_graph_topic |-> mentioned # <<>>]

\* d.get(k) on a dict kept as its list of items; "None" stands for None
DictGet(d, k) ==
    IF \E i \in 1..Len(d) : d[i][1] = k
    THEN d[CHOOSE i \in 1..Len(d) : d[i][1] = k][2]
    ELSE "None"

\* the ids that the names have in the dict d, names without an id left out
\* (lines 317-326)
RECURSIVE IdsOfNames(_, _)
IdsOfNames(d, names) ==
    IF names = <<>> THEN <<>>
    ELSE (IF DictGet(d, Lower(Head(names))) # "None"
          THEN <<DictGet(d, Lower(Head(names)))>> ELSE <<>>)
         \o IdsOfNames(d, Tail(names))

\* known_concept_ids (lines 314-326)
KnownConceptIds(query_analysis) ==
    IdsOfNames(TopicNameToId, query_analysis.truly_known_topics)
    \o IdsOfNames(SubtopicNameToId, query_analysis.known_subtopics)

\* self.all_id_to_data[id]['name'] (line 43): of several nodes with one id the
\* dict keeps the last
NameOfId(id) ==
    LET at == {i \in 1..Len(nodes) : nodes[i].id = id}
    IN nodes[CHOOSE i \in at : \A j \in at : j <= i].name

\* learning_path[:7] (line 372)
PathNamesLimit == 7

\* gaps[:5] (line 366)
GapNamesLimit == 5

\* d.get(key, default) on a dict kept as a record
RecordGet(d, key, default) == IF key \in DOMAIN d THEN d[key] ELSE default

\* find_learning_gaps (lines 303-392) for a query that mentions a node, the
\* only queries handle_chat_message calls it for: the set of dicts it can
\* return.  Line 358 reads the keys 'missing_prerequisites' and
\* 'recommended_subtopics' of the dict analyze_subtopic_learning_gaps returns
\* (lines 499-505).
FindLearningGaps(query_analysis) ==
    IF ~HasAnalyzer
    THEN {[gaps |-> <<>>, learning_path |-> <<>>, target_topic |-> "None",
           known_concepts |-> <<>>]}
    ELSE LET known_concept_ids == KnownConceptIds(query_analysis)
             target_node ==
                 IF query_analysis.mentioned_topics # <<>>
                 THEN query_analysis.mentioned_topics[1]
                 ELSE query_analysis.mentioned_subtopics[1]
             gaps_result ==
                 AnalyzeSubtopicLearningGaps(known_concept_ids, target_node.id)
             gaps == RecordGet(gaps_result, "missing_prerequisites", <<>>)
                     \o RecordGet(gaps_result, "recommended_subtopics", <<>>)
             known_concepts ==
                 query_analysis.truly_known_topics \o query_analysis.known_subtopics
         IN {[gaps |->
                 IF r.reason = "raised" \/ gaps_result.reason = "raised" THEN <<>>
                 ELSE [i \in 1..Min({GapNamesLimit, Len(gaps)}) |-> NameOfId(gaps[i])],
              learning_path |->
                 IF r.reason = "raised" \/ gaps_result.reason = "raised" THEN <<>>
                 ELSE [i \in 1..Min({PathNamesLimit, Len(r.path)}) |-> NameOfId(r.path[i])],
              target_topic |-> target_node.name,
              known_concepts |-> known_concepts] :
                r \in FindOptimalLearningPath(Range(known_concept_ids), target_node.id)}

\* mutant: the completed topic replaces the list instead of joining it
CompleteCurrentTopic_ReplacesCompleted(s) ==
    IF s.current_path # <<>> /\ s.current_step_index < Len(s.current_path)
    THEN [s EXCEPT !.completed_topics = <<s.current_path[s.current_step_index + 1]>>,
                   !.current_step_index = @ + 1]
    ELSE s

\* complete_current_topic (lines 716-728): the session after it
CompleteCurrentTopic(s) ==
    IF s.current_path # <<>> /\ s.current_step_index < Len(s.current_path)
    THEN [s EXCEPT !.completed_topics =
                       Append(@, s.current_path[s.current_step_index + 1]),
                   !.current_step_index = @ + 1]
    ELSE s

\* complete_current_topic (lines 716-728): what it returns
CompleteCurrentTopicReturns(s) ==
    s.current_path # <<>> /\ s.current_step_index < Len(s.current_path)

\* add_topic_to_user_profile (lines 730-771): the profile file after it.  The
\* topic is written to the latest user_profile_*.json; a profile read from
\* user_profile.json is changed in memory only (lines 762-767).
AddTopicToUserProfile(p, topic_name) ==
    IF p.file = "none" \/ topic_name = "None" THEN p
    ELSE LET existing_topics == {Lower(p.topics[i].name) : i \in 1..Len(p.topics)}
             found == TopicNodesNamed(topic_name)
         IN IF /\ Lower(topic_name) \notin existing_topics
               /\ HasAnalyzer
               /\ found # <<>>
               /\ p.file = "stamped"
            THEN [p EXCEPT !.topics =
                     Append(@, [name |-> found[1].name, subtopics |-> <<>>])]
            ELSE p

\* what a handler leaves behind: the session, the profile file, and the key of
\* the reply's 'analysis' that names the case, with the topic it is about
Outcome(s, p, kind, topic) == [session |-> s, profile |-> p, kind |-> kind, topic |-> topic]

\* session['current_path'][session['current_step_index']] where the handlers
\* have tested that it exists
CurrentTopic(s) == s.current_path[s.current_step_index + 1]

HasCurrentTopic(s) ==
    s.current_path # <<>> /\ s.current_step_index < Len(s.current_path)

\* handle_next_topic_request (lines 923-990)
HandleNextTopicRequest(s, p) ==
    IF s.current_path = <<>> THEN Outcome(s, p, "no_active_path", "None")
    ELSE IF s.current_step_index < Len(s.current_path)
    THEN LET done == CompleteCurrentTopic(s)
         IN IF done.current_step_index < Len(s.current_path)
            THEN Outcome(done, p, "topic_progression", CurrentTopic(done))
            ELSE Outcome(done, AddTopicToUserProfile(p, s.target_topic),
                         "path_completed", s.target_topic)
    ELSE Outcome(s, p, "progress_error", "None")

\* handle_more_explanation_request (lines 992-1093)
HandleMoreExplanationRequest(s, p) ==
    IF HasCurrentTopic(s)
    THEN Outcome(s, p, "detailed_explanation_provided", CurrentTopic(s))
    ELSE Outcome(s, p, "general_help_request", "None")

\* handle_no_response (lines 1095-1125)
HandleNoResponse(s, p) ==
    IF HasCurrentTopic(s)
    THEN Outcome(s, p, "awaiting_specific_question", CurrentTopic(s))
    ELSE Outcome(s, p, "general_help_ready", "None")

\* handle_topic_completion (lines 1127-1213)
HandleTopicCompletion(s, p, learning_intent) ==
    IF HasCurrentTopic(s)
    THEN IF learning_intent.satisfied_with_topic
         THEN LET added == AddTopicToUserProfile(p, CurrentTopic(s))
                  done == CompleteCurrentTopic(s)
              IN IF done.current_step_index < Len(s.current_path)
                 THEN Outcome(done, added, "topic_added_to_profile", CurrentTopic(s))
                 ELSE Outcome(done, added, "path_completed", CurrentTopic(s))
         ELSE Outcome(s, p, "awaiting_confirmation", CurrentTopic(s))
    ELSE Outcome(s, p, "no_active_topic", "None")

\* mutant: the new path is stored without resetting current_step_index
HandleGraphTopic_KeepsIndex(s, p, query_analysis) ==
    {LET next_steps == SelectSeq(g.learning_path,
                                 LAMBDA step : ~Contains(g.known_concepts, step))
     IN Outcome(IF g.learning_path # <<>>
                THEN [s EXCEPT !.current_path = g.learning_path,
                               !.target_topic = g.target_topic]
                ELSE s,
                p, "graph_based",
                IF next_steps # <<>> THEN next_steps[1] ELSE "None") :
        g \in FindLearningGaps(query_analysis)}

\* the graph branch of handle_chat_message (lines 827-888): a non-empty
\* learning path replaces the session's path
HandleGraphTopic(s, p, query_analysis) ==
    {LET next_steps == SelectSeq(g.learning_path,
                                 LAMBDA step : ~Contains(g.known_concepts, step))
     IN Outcome(IF g.learning_path # <<>>
                THEN [s EXCEPT !.current_path = g.learning_path,
                               !.current_step_index = 0,
                               !.target_topic = g.target_topic]
                ELSE s,
                p, "graph_based",
                IF next_steps # <<>> THEN next_steps[1] ELSE "None") :
        g \in FindLearningGaps(query_analysis)}

\* handle_chat_message (lines 773-921): what it can leave behind
HandleChatMessageOutcomes(message) ==
    IF profile.file = "none"
    THEN {Outcome(session, profile, "error", "None")}
    ELSE LET query_analysis == AnalyzeUserQuery(message, profile)
             learning_intent == query_analysis.learning_intent
         IN IF learning_intent.satisfied_with_topic
            THEN {HandleTopicCompletion(session, profile, learning_intent)}
            ELSE IF learning_intent.wants_next_topic \/ learning_intent.confirms_understanding
            THEN {HandleNextTopicRequest(session, profile)}
            ELSE IF learning_intent.needs_more_explanation
            THEN {HandleMoreExplanationRequest(session, profile)}
            ELSE IF learning_intent.wants_to_complete_topic
            THEN {HandleTopicCompletion(session, profile, learning_intent)}
            ELSE IF learning_intent.says_no_need_help
            THEN {HandleNoResponse(session, profile)}
            ELSE IF query_analysis.is_small_talk
            THEN {Outcome(session, profile, "small_talk", "None")}
            ELSE IF query_analysis.is_graph_topic
            THEN HandleGraphTopic(session, profile, query_analysis)
            ELSE {Outcome(session, profile, "dynamic", "None")}

\* the handler is constructed, with or without an analyzer
Serving == phase \in {"ready", "no_analyzer"}

\* a request to /api/chat (server.py lines 26-37): handle_chat_message on the
\* message; the reply stays until the next message
HandleChatMessage(message) ==
    /\ Serving
    /\ \E out \in HandleChatMessageOutcomes(message) :
          /\ Len(out.session.completed_topics) <= MaxSessionCompleted
          /\ session' = out.session
          /\ profile' = out.profile
          /\ result' = [reason |-> "reply", exc |-> "", kind |-> out.kind,
                        topic |-> out.topic]
    /\ call' = [op |-> "chat", completed |-> <<>>, target |-> message]
    /\ UNCHANGED <<nodes, graph, clusters, phase, threads>>

\* a call of complete_current_topic for the user (lines 716-728)
CompleteTopic ==
    /\ Serving
    /\ Len(CompleteCurrentTopic(session).completed_topics) <= MaxSessionCompleted
    /\ session' = CompleteCurrentTopic(session)
    /\ call' = [op |-> "complete_current_topic", completed |-> <<>>, target |-> ""]
    /\ result' = [reason |-> "returned", exc |-> "",
                  value |-> CompleteCurrentTopicReturns(session)]
    /\ UNCHANGED <<nodes, graph, clusters, phase, threads, profile>>

\* a call of find_learning_gaps as handle_chat_message makes it (lines
\* 827-829): on the analysis of a message that mentions a node of the graph,
\* for the user's profile
FindGaps(message) ==
    /\ phase = "ready"
    /\ profile.file # "none"
    /\ call = NoCall
    /\ LET query_analysis == AnalyzeUserQuery(message, profile)
       IN /\ query_analysis.is_graph_topic
          /\ call' = [op |-> "find_learning_gaps",
                      completed |-> KnownConceptIds(query_analysis),
                      target |-> message]
          /\ \E g \in FindLearningGaps(query_analysis) :
                result' = [reason |-> "learning_gaps", exc |-> "",
                           gaps |-> g.gaps, learning_path |-> g.learning_path,
                           target_topic |-> g.target_topic]
    /\ UNCHANGED <<nodes, graph, clusters, phase, handler>>

----------------------------------------------------------------------------
(* Startup.  server.py constructs the chat handler, whose __init__ constructs *)
(* the analyzer on graph_data.json inside a try block (lines 59-73).         *)

\* the node entry has the key 'id'
HasId(node) == "id" \in DOMAIN node

\* load_graph_data and the node loop of build_real_graph (lines 45-60): a
\* missing file is read as an empty snapshot, node['id'] on an entry without
\* that key raises KeyError
ReadNodes ==
    /\ phase = "constructing"
    /\ IF \A i \in 1..Len(nodes) : HasId(nodes[i])
       THEN /\ graph' = EmptyGraph(NodeIds)
            /\ phase' = "loading"
            /\ result' = result
       ELSE /\ graph' = graph
            /\ phase' = "raised"
            /\ result' = Raised("KeyError", <<>>)
    /\ UNCHANGED <<nodes, clusters, call, handler>>

\* an iteration of the edge loop on an entry without 'source' or 'target':
\* edge['source'] or edge['target'] raises KeyError (line 66) and the graph
\* built so far is dropped with the constructor's frame
LoadEdgeWithoutEndpoint ==
    /\ phase = "loading"
    /\ call.target = "graph_data.json"
    /\ EntriesRead < MaxEdges
    /\ phase' = "raised"
    /\ result' = Raised("KeyError", <<>>)
    /\ UNCHANGED <<nodes, graph, clusters, call, handler>>

\* except Exception of IntegratedChatHandler.__init__ (lines 70-73): the error
\* is printed, self.graph_analyzer is None and the constructor goes on
CatchInitError ==
    /\ phase = "raised"
    /\ phase' = "no_analyzer"
    /\ result' = NoResult
    /\ UNCHANGED <<nodes, graph, clusters, call, handler>>

----------------------------------------------------------------------------
(* Graph builder (graph_builder.py).  build_graph turns the scraped data, a  *)
(* dict from topic name to the topic's data, into the snapshot the analyzer  *)
(* loads.  The data is kept as the list of its items, a topic being the      *)
(* record of its name and of the list of its subtopic names.                 *)

Digits == {"0", "1", "2", "3", "4", "5", "6", "7", "8", "9"}

\* re.sub(r'[^a-z0-9]', '', name.lower()) (line 108)
CleanName(name) ==
    SelectSeq(Lower(name), LAMBDA c : c \in Range(LowerCase) \cup Digits)

\* the number of values that abs(hash(clean_name)) % 1000 takes in the model
IdRange == 2

\* _generate_id (lines 96-116) for a name with a letter or a digit; hash[c] is
\* abs(hash(c)) % 1000 in the interpreter that runs the builder: str hashes
\* are seeded per process, so hash is any function of the cleaned name
GenerateId(name, prefix, hash) == prefix \o ToString(hash[CleanName(name)])

\* str.upper() of a character
Capital(c) ==
    IF \E i \in 1..Len(LowerCase) : LowerCase[i] = c
    THEN UpperCase[CHOOSE i \in 1..Len(LowerCase) : LowerCase[i] = c]
    ELSE c

\* str.title(): a letter after a letter is lowered, any other is capitalised
Title(name) ==
    [i \in 1..Len(name) |->
        IF i > 1 /\ LowerChar(name[i - 1]) \in Range(LowerCase)
        THEN LowerChar(name[i]) ELSE Capital(name[i])]

\* f"{topic_name}_{subtopic_name}" (lines 62-63)
SubtopicKey(topic_name, subtopic_name) == topic_name \o <<"_">> \o subtopic_name

RECURSIVE Concat(_)
Concat(ss) == IF ss = <<>> THEN <<>> ELSE Head(ss) \o Concat(Tail(ss))

\* the nodes one iteration of the topic loop appends to all_nodes (lines
\* 45-74): the topic's node, then a node for each of its subtopics
TopicEntries(topic, hash) ==
    LET topic_id == GenerateId(topic.name, "t", hash)
    IN <<[id |-> topic_id, name |-> Title(topic.name), type |-> "topic"]>>
       \o [j \in 1..Len(topic.subtopics) |->
             [id |-> GenerateId(SubtopicKey(topic.name, topic.subtopics[j]), "s", hash),
              name |-> Title(topic.subtopics[j]),
              type |-> "subtopic",
              parent_topic |-> topic_id]]

\* the assignments to concept_mapping of one iteration (lines 47 and 63)
ConceptItems(topic, hash) ==
    <<<<Lower(topic.name), GenerateId(topic.name, "t", hash)>>>>
    \o [j \in 1..Len(topic.subtopics) |->
          <<Lower(SubtopicKey(topic.name, topic.subtopics[j])),
            GenerateId(SubtopicKey(topic.name, topic.subtopics[j]), "s", hash)>>]

\* topic_relationships (lines 127-180) in the order of its keys, each name as
\* the sequence of its characters
TopicRelationships ==
    <<[topic |-> <<"a", "r", "r", "a", "y">>,
       prerequisites |-> <<>>,
       leads_to |-> <<<<"l", "i", "n", "k", "e", "d", " ", "l", "i", "s", "t">>,
                     <<"s", "t", "a", "c", "k">>,
                     <<"q", "u", "e", "u", "e">>,
                     <<"s", "o", "r", "t", "i", "n", "g">>,
                     <<"s", "e", "a", "r", "c", "h", "i", "n", "g">>>>],
      [topic |-> <<"l", "i", "n", "k", "e", "d", " ", "l", "i", "s", "t">>,
       prerequisites |-> <<<<"a", "r", "r", "a", "y">>>>,
       leads_to |-> <<<<"s", "t", "a", "c", "k">>,
                     <<"q", "u", "e", "u", "e">>,
                     <<"t", "r", "e", "e">>>>],
      [topic |-> <<"s", "t", "a", "c", "k">>,
       prerequisites |-> <<<<"a", "r", "r", "a", "y">>,
                          <<"l", "i", "n", "k", "e", "d", " ", "l", "i", "s", "t">>>>,
       leads_to |-> <<<<"q", "u", "e", "u", "e">>,
                     <<"t", "r", "e", "e">>,
                     <<"e", "x", "p", "r", "e", "s", "s", "i", "o", "n", " ", "e", "v", "a", "l", "u", "a", "t", "i", "o", "n">>>>],
      [topic |-> <<"q", "u", "e", "u", "e">>,
       prerequisites |-> <<<<"a", "r", "r", "a", "y">>,
                          <<"l", "i", "n", "k", "e", "d", " ", "l", "i", "s", "t">>>>,
       leads_to |-> <<<<"t", "r", "e", "e">>,
                     <<"g", "r", "a", "p", "h">>,
                     <<"b", "r", "e", "a", "d", "t", "h", " ", "f", "i", "r", "s", "t", " ", "s", "e", "a", "r", "c", "h">>>>],
      [topic |-> <<"t", "r", "e", "e">>,
       prerequisites |-> <<<<"l", "i", "n", "k", "e", "d", " ", "l", "i", "s", "t">>>>,
       leads_to |-> <<<<"b", "i", "n", "a", "r", "y", " ", "t", "r", "e", "e">>,
                     <<"b", "i", "n", "a", "r", "y", " ", "s", "e", "a", "r", "c", "h", " ", "t", "r", "e", "e">>,
                     <<"h", "e", "a", "p">>,
                     <<"g", "r", "a", "p", "h">>>>],
      [topic |-> <<"b", "i", "n", "a", "r", "y", " ", "t", "r", "e", "e">>,
       prerequisites |-> <<<<"t", "r", "e", "e">>>>,
       leads_to |-> <<<<"b", "i", "n", "a", "r", "y", " ", "s", "e", "a", "r", "c", "h", " ", "t", "r", "e", "e">>,
                     <<"h", "e", "a", "p">>,
                     <<"t", "r", "e", "e", " ", "t", "r", "a", "v", "e", "r", "s", "a", "l">>>>],
      [topic |-> <<"b", "i", "n", "a", "r", "y", " ", "s", "e", "a", "r", "c", "h", " ", "t", "r", "e", "e">>,
       prerequisites |-> <<<<"b", "i", "n", "a", "r", "y", " ", "t", "r", "e", "e">>>>,
       leads_to |-> <<<<"b", "a", "l", "a", "n", "c", "e", "d", " ", "t", "r", "e", "e", "s">>,
                     <<"t", "r", "e", "e", " ", "o", "p", "e", "r", "a", "t", "i", "o", "n", "s">>>>],
      [topic |-> <<"g", "r", "a", "p", "h">>,
       prerequisites |-> <<<<"t", "r", "e", "e">>,
                          <<"q", "u", "e", "u", "e">>>>,
       leads_to |-> <<<<"g", "r", "a", "p", "h", " ", "a", "l", "g", "o", "r", "i", "t", "h", "m", "s">>,
                     <<"s", "h", "o", "r", "t", "e", "s", "t", " ", "p", "a", "t", "h">>,
                     <<"m", "i", "n", "i", "m", "u", "m", " ", "s", "p", "a", "n", "n", "i", "n", "g", " ", "t", "r", "e", "e">>>>],
      [topic |-> <<"s", "o", "r", "t", "i", "n", "g">>,
       prerequisites |-> <<<<"a", "r", "r", "a", "y">>>>,
       leads_to |-> <<<<"s", "e", "a", "r", "c", "h", "i", "n", "g">>,
                     <<"m", "e", "r", "g", "e", " ", "s", "o", "r", "t">>,
                     <<"q", "u", "i", "c", "k", " ", "s", "o", "r", "t">>>>],
      [topic |-> <<"s", "e", "a", "r", "c", "h", "i", "n", "g">>,
       prerequisites |-> <<<<"a", "r", "r", "a", "y">>>>,
       leads_to |-> <<<<"b", "i", "n", "a", "r", "y", " ", "s", "e", "a", "r", "c", "h">>,
                     <<"h", "a", "s", "h", " ", "t", "a", "b", "l", "e">>>>],
      [topic |-> <<"h", "a", "s", "h", " ", "t", "a", "b", "l", "e">>,
       prerequisites |-> <<<<"a", "r", "r", "a", "y">>>>,
       leads_to |-> <<<<"h", "a", "s", "h", " ", "f", "u", "n", "c", "t", "i", "o", "n", "s">>,
                     <<"c", "o", "l", "l", "i", "s", "i", "o", "n", " ", "r", "e", "s", "o", "l", "u", "t", "i", "o", "n">>>>],
      [topic |-> <<"d", "y", "n", "a", "m", "i", "c", " ", "p", "r", "o", "g", "r", "a", "m", "m", "i", "n", "g">>,
       prerequisites |-> <<<<"r", "e", "c", "u", "r", "s", "i", "o", "n">>>>,
       leads_to |-> <<<<"o", "p", "t", "i", "m", "i", "z", "a", "t", "i", "o", "n", " ", "p", "r", "o", "b", "l", "e", "m", "s">>,
                     <<"m", "e", "m", "o", "i", "z", "a", "t", "i", "o", "n">>>>],
      [topic |-> <<"r", "e", "c", "u", "r", "s", "i", "o", "n">>,
       prerequisites |-> <<>>,
       leads_to |-> <<<<"d", "y", "n", "a", "m", "i", "c", " ", "p", "r", "o", "g", "r", "a", "m", "m", "i", "n", "g">>,
                     <<"b", "a", "c", "k", "t", "r", "a", "c", "k", "i", "n", "g">>,
                     <<"t", "r", "e", "e", " ", "t", "r", "a", "v", "e", "r", "s", "a", "l">>>>]>>

\* the edges _create_topic_connections appends for one key of the table
\* (lines 183-208): none if the key has no id, else an edge from each
\* prerequisite that has an id, then an edge to each suggestion that has one
RelationEdges(relationships, concept_mapping) ==
    LET topic_id == DictGet(concept_mapping, Lower(relationships.topic))
        known(names) ==
            SelectSeq(names, LAMBDA n : DictGet(concept_mapping, Lower(n)) # "None")
        prereqs == known(relationships.prerequisites)
        suggestions == known(relationships.leads_to)
    IN IF topic_id = "None" THEN <<>>
       ELSE [i \in 1..Len(prereqs) |->
               <<DictGet(concept_mapping, Lower(prereqs[i])), topic_id, "prerequisite">>]
            \o [i \in 1..Len(suggestions) |->
                  <<topic_id, DictGet(concept_mapping, Lower(suggestions[i])), "leads_to">>]

\* the 'sequence' edges between the subtopics of one parent (lines 211-228):
\* topic_subtopics lists the subtopic node ids per parent_topic, parents in
\* the order of their first subtopic node
SequenceEdges(all_nodes) ==
    LET subs == SelectSeq(all_nodes, LAMBDA n : n.type = "subtopic")
        parents == AppendNew(<<>>, [i \in 1..Len(subs) |-> subs[i].parent_topic])
        ids(p) == LET of_p == SelectSeq(subs, LAMBDA n : n.parent_topic = p)
                  IN [i \in 1..Len(of_p) |-> of_p[i].id]
    IN Concat([k \in 1..Len(parents) |->
                 [i \in 1..(Len(ids(parents[k])) - 1) |->
                     <<ids(parents[k])[i], ids(parents[k])[i + 1], "sequence">>]])

\* build_graph (lines 24-90): the snapshot's nodes and its edge entries
\* <<source, target, type>>, the 'contains' edges of the topic loop first
BuildGraph(data, hash) ==
    LET all_nodes == Concat([i \in 1..Len(data) |-> TopicEntries(data[i], hash)])
        concept_mapping ==
            DictMerge(<<>>, Concat([i \in 1..Len(data) |-> ConceptItems(data[i], hash)]))
        subs == SelectSeq(all_nodes, LAMBDA n : n.type = "subtopic")
    IN [nodes |-> all_nodes,
        edges |-> [i \in 1..Len(subs) |-> <<subs[i].parent_topic, subs[i].id, "contains">>]
                  \o Concat([k \in 1..Len(TopicRelationships) |->
                               RelationEdges(TopicRelationships[k], concept_mapping)])
                  \o SequenceEdges(all_nodes)]

\* G.nodes[n] after the node loop of build_real_graph (lines 59-60), and
\* all_id_to_data[n] (line 43): the entries of one id carry the same keys, so
\* the attributes are those of the last of them
NodeData(n) ==
    nodes[CHOOSE i \in 1..Len(nodes) :
             nodes[i].id = n /\ \A j \in (i + 1)..Len(nodes) : nodes[j].id # n]

----------------------------------------------------------------------------
(* Specifications *)

\* no call in progress, no session yet, no profile file
NoThreads == <<>>
NoSession == [current_path |-> <<>>, completed_topics |-> <<>>,
              current_step_index |-> 0, target_topic |-> "None"]
NoProfile == [file |-> "none", topics |-> <<>>]

RECURSIVE AddEdges(_, _)
AddEdges(g, es) ==
    IF es = <<>> THEN g
    ELSE AddEdges(AddEdge(g, Head(es)[1], Head(es)[2], Head(es)[3]), Tail(es))

InitWith(ns, es) ==
    /\ nodes = ns
    /\ graph = AddEdges(EmptyGraph({ns[i].id : i \in 1..Len(ns)}), es)
    /\ clusters = <<>>
    /\ phase = "loading"
    /\ call = NoCall
    /\ result = NoResult
    /\ threads = NoThreads
    /\ session = NoSession
    /\ profile = NoProfile

Load ==
    \/ \E u \in NodeIds, v \in NodeIds, ty \in SnapshotTypes : LoadEdge(u, v, ty)
    \/ FinishLoad

\* the path finder on any snapshot of two topics and a subtopic
Init == InitWith(PathSnapshotNodes, <<>>)

Next ==
    \/ Load
    \/ \E completed \in SUBSET AllIds, target \in AllIds : FindPath(completed, target)
    \/ Return

Spec == Init /\ [][Next]_vars

\* the gap analyzer on a snapshot of one topic with its two subtopics
InitGap ==
    InitWith(GapSnapshotNodes,
             <<<<"t1", "s1", "contains">>, <<"t1", "s2", "contains">>>>)

NextGap ==
    \/ Load
    \/ \E completed \in SeqsUpTo(AllIds, MaxCompleted), target \in AllIds :
          AnalyzeGaps(completed, target)
    \/ Return

SpecGap == InitGap /\ [][NextGap]_vars

\* the edge entries the larger snapshots are made of
ClusterEntries ==
    {<<"t2", "s1", "contains">>, <<"t3", "t2", "prerequisite">>,
     <<"s1", "t3", "prerequisite">>, <<"t5", "s1", "related">>,
     <<"t2", "t1", "sequence">>, <<"t1", "t4", "leads_to">>,
     <<"t4", "t5", "prerequisite">>}

\* the edge lists of at most MaxEdges of these entries between nodes of ns
ClusterSnapshotEdges(ns) ==
    LET ids == {ns[i].id : i \in 1..Len(ns)}
    IN SeqsUpTo({e \in ClusterEntries : e[1] \in ids /\ e[2] \in ids}, MaxEdges)

\* the completed topics and the targets of the queries on the larger snapshots
ClusterCompleted == {"t2", "t3", "t5"}
ClusterTargets == {"t1", "t4", "s1"}

\* the analyzer constructed on a snapshot of five topics, or on one with two
\* topic nodes of the same id; build_real_graph has run, the clustering has not
InitCluster ==
    \E ns \in {ClusterSnapshotNodes, CollidingSnapshotNodes} :
        \E es \in ClusterSnapshotEdges(ns) : InitWith(ns, es)

NextCluster ==
    \/ FinishLoad
    \/ \E completed \in SUBSET ClusterCompleted, target \in ClusterTargets :
          FindPath(completed, target)
    \/ Return

SpecCluster == InitCluster /\ [][NextCluster]_vars

\* the path finder on the snapshot with two topic nodes of one id, any topic
\* or subtopic of it the target
InitColliding ==
    \E es \in ClusterSnapshotEdges(CollidingSnapshotNodes) :
        InitWith(CollidingSnapshotNodes, es)

NextColliding ==
    \/ FinishLoad
    \/ \E completed \in SUBSET {"t1", "s1"}, target \in {"t1", "t2", "s1"} :
          FindPath(completed, target)
    \/ Return

SpecColliding == InitColliding /\ [][NextColliding]_vars

\* the edge entries of the snapshots the search is stepped through: a
\* self-loop, cycles through every node, and an edge the search does not follow
SearchEntries ==
    {<<"t1", "t1", "prerequisite">>, <<"t2", "t1", "prerequisite">>,
     <<"t1", "t2", "sequence">>, <<"s1", "t2", "prerequisite">>,
     <<"t2", "s1", "sequence">>, <<"s1", "t1", "contains">>}

\* the thread that runs the search
Searcher == "c1"

\* the analyzer on a snapshot of at most MaxEdges of these entries, and one
\* caller of find_missing_prerequisites at a time
InitSearch ==
    \E es \in SeqsUpTo(SearchEntries, MaxEdges) : InitWith(PathSnapshotNodes, es)

NextSearch ==
    \/ FinishLoad
    \/ \E completed \in SUBSET {"t2", "s1"}, target \in {"t1", "t2", "s1"} :
          StartSearch(Searcher, completed, target)
    \/ SearchStep(Searcher)
    \/ SearchReturn(Searcher)
    \/ Finish(Searcher)

SpecSearch == InitSearch /\ [][NextSearch]_vars

\* the call runs in a thread of its own that nothing blocks: an iteration that
\* can be taken is taken
SpecSearchFair ==
    /\ SpecSearch
    /\ WF_vars(SearchStep(Searcher))
    /\ WF_vars(SearchReturn(Searcher))

\* the names the nodes of a snapshot carry
StoredNames ==
    {<<"a">>, <<"a", "b">>, <<"A", "b">>, <<"b", "a">>, <<"b", "a", "b">>, <<"B", " ", "a">>}

NamedNode(i, name) == [id |-> i, type |-> NodeType[i], name |-> name]

\* the analyzer constructed on a snapshot of two topics and a subtopic with any
\* of these names and no edges
InitNames ==
    \E n1 \in StoredNames, n2 \in StoredNames, n3 \in StoredNames :
        InitWith(<<NamedNode("t1", n1), NamedNode("t2", n2), NamedNode("s1", n3)>>, <<>>)

NextNames ==
    \/ FinishLoad
    \/ \E name \in SeqsUpTo(Alphabet, MaxQueryLen) : FindNode(name)
    \/ Return

SpecNames == InitNames /\ [][NextNames]_vars

\* the 'contains' edges GraphBuilder writes for a node list: from the topic to
\* each subtopic listed after it (graph_builder.py lines 61-82)
RECURSIVE ContainsEntries(_, _)
ContainsEntries(ns, topic) ==
    IF ns = <<>> THEN <<>>
    ELSE IF Head(ns).type = "topic" THEN ContainsEntries(Tail(ns), Head(ns).id)
    ELSE <<<<topic, Head(ns).id, "contains">>>> \o ContainsEntries(Tail(ns), topic)

\* the edge entries that follow the contains edges in these snapshots
CrossEntries ==
    {<<"s3", "s1", "prerequisite">>, <<"s3", "s2", "sequence">>,
     <<"s4", "s1", "sequence">>, <<"s4", "s2", "related">>,
     <<"s4", "s3", "prerequisite">>, <<"s2", "s1", "prerequisite">>,
     <<"t2", "s1", "prerequisite">>, <<"s1", "s3", "sequence">>}

\* the completed subtopics of the queries on these snapshots
CrossCompleted == {"s1", "s3", "s4"}

\* the analyzer constructed on a snapshot of two topics with their subtopics:
\* the builder's contains edges, then at most MaxEdges further entries
InitCross ==
    \E ns \in {CrossSnapshotNodes, CollidingCrossSnapshotNodes} :
        LET ids == {ns[i].id : i \in 1..Len(ns)}
        IN \E es \in SeqsUpTo({e \in CrossEntries : e[1] \in ids /\ e[2] \in ids},
                               MaxEdges) :
              InitWith(ns, ContainsEntries(ns, "") \o es)

NextCross ==
    \/ FinishLoad
    \/ \E completed \in SeqsUpTo(CrossCompleted, MaxCompleted),
          target \in {"t1", "t2"} : AnalyzeGaps(completed, target)
    \/ Return

SpecCross == InitCross /\ [][NextCross]_vars

\* the edge entries that follow the contains edges in the snapshot the
\* interleaved calls run on
ConcurrentEntries ==
    {<<"s3", "t1", "prerequisite">>, <<"s3", "s1", "prerequisite">>,
     <<"s1", "s2", "sequence">>, <<"t2", "t1", "prerequisite">>}

\* the arguments of the interleaved calls; "t3" is not a node of the snapshot
ConcurrentPathCalls == {{}, {"s3"}} \X {"t1", "t2", "t3"}
ConcurrentGapCalls == {<<>>, <<"s1">>, <<"s3", "s1">>} \X {"t1", "t2"}

InitConcurrent ==
    \E es \in SeqsUpTo(ConcurrentEntries, MaxEdges) :
        InitWith(CrossSnapshotNodes, ContainsEntries(CrossSnapshotNodes, "") \o es)

NextConcurrent ==
    \/ FinishLoad
    \/ \E t \in Callers :
          \/ \E c \in ConcurrentPathCalls : StartPath(t, c[1], c[2])
          \/ CheckCompleted(t)
          \/ DirectPath(t)
          \/ PrerequisiteChain(t)
          \/ ClusterBased(t)
          \/ \E c \in ConcurrentGapCalls : StartGaps(t, c[1], c[2])
          \/ TargetSubtopics(t)
          \/ SplitCompleted(t)
          \/ SortMissing(t)
          \/ PrerequisiteSubtopics(t)
          \/ Finish(t)

SpecConcurrent == InitConcurrent /\ [][NextConcurrent]_vars

\* a node entry as GraphBuilder.build_graph writes it (graph_builder.py lines
\* 49-72), without its level and description; a topic has no parent_topic
ChatNode(i, name, parent_topic) ==
    [id |-> i, type |-> NodeType[i], name |-> name, parent_topic |-> parent_topic,
     keywords |-> {}]

\* the names of the nodes of the chat handler's snapshot
Arrays == <<"A", "r", "r", "a", "y", "s">>
Indexing == <<"I", "n", "d", "e", "x", "i", "n", "g">>
Stacks == <<"S", "t", "a", "c", "k", "s">>

\* a snapshot of the topic Arrays with its subtopic Indexing and the topic Stacks
ChatSnapshotNodes ==
    <<ChatNode("t1", Arrays, "None"), ChatNode("s1", Indexing, "t1"),
      ChatNode("t2", Stacks, "None")>>

\* the edge entries that follow the contains edge in that snapshot
ChatEntries == {<<"t1", "t2", "prerequisite">>, <<"s1", "t2", "sequence">>}

\* the profile files the onboarding can leave in frontend/public: the latest
\* user_profile_*.json ("stamped") or only user_profile.json ("plain"), with
\* no known topic or with Arrays and its subtopic known
ChatProfiles ==
    [file : {"plain", "stamped"},
     topics : {<<>>, <<[name |-> Arrays, subtopics |-> <<Indexing>>]>>}]

\* the messages of the user
Yes == <<"Y", "e", "s">>
No == <<"N", "o">>
NextTopic == <<"N", "e", "x", "t", " ", "t", "o", "p", "i", "c">>
ImDone == <<"I", "'", "m", " ", "d", "o", "n", "e">>
IAmSatisfied == <<"I", " ", "a", "m", " ", "s", "a", "t", "i", "s", "f", "i", "e", "d">>
LearnStacks == <<"L", "e", "a", "r", "n", " ", "s", "t", "a", "c", "k", "s">>
LearnArrays == <<"L", "e", "a", "r", "n", " ", "a", "r", "r", "a", "y", "s">>
Hello == <<"h", "e", "l", "l", "o">>
WhatIsAHeap == <<"W", "h", "a", "t", " ", "i", "s", " ", "a", " ", "h", "e", "a", "p">>

ChatMessages ==
    {Yes, No, NextTopic, ImDone, IAmSatisfied, LearnStacks, LearnArrays, Hello,
     WhatIsAHeap}

\* the frontend's onboarding writes the user's profile file
Onboarding(p) ==
    /\ profile.file = "none"
    /\ profile' = p
    /\ UNCHANGED <<nodes, graph, clusters, phase, call, result, threads, session>>

\* the chat handler on that snapshot: server.py constructs it, the user is
\* onboarded and sends messages
InitChat ==
    \E es \in SeqsUpTo(ChatEntries, MaxEdges) :
        InitWith(ChatSnapshotNodes, ContainsEntries(ChatSnapshotNodes, "") \o es)

NextChat ==
    \/ FinishLoad
    \/ \E p \in ChatProfiles : Onboarding(p)
    \/ \E message \in ChatMessages : HandleChatMessage(message)

SpecChat == InitChat /\ [][NextChat]_vars

\* the replies of a user who needs no help, one for each no_help pattern
Nope == <<"N", "o", "p", "e">>
NotReally == <<"N", "o", "t", " ", "r", "e", "a", "l", "l", "y">>
ImGood == <<"I", "'", "m", " ", "g", "o", "o", "d">>
NoThanks == <<"N", "o", " ", "t", "h", "a", "n", "k", "s">>
NoNeed == <<"N", "o", " ", "n", "e", "e", "d">>
NoHelpMessages == {No, Nope, NotReally, ImGood, NoThanks, NoNeed}

\* the chat handler on the same snapshot, for a user who asks for a topic and
\* then declines help
NextNoHelp ==
    \/ FinishLoad
    \/ \E p \in ChatProfiles : Onboarding(p)
    \/ \E message \in NoHelpMessages \cup {LearnStacks} : HandleChatMessage(message)

SpecNoHelp == InitChat /\ [][NextNoHelp]_vars

\* the messages that name a node of that snapshot
LearnIndexing == <<"L", "e", "a", "r", "n", " ", "i", "n", "d", "e", "x", "i", "n", "g">>
GraphMessages == {LearnStacks, LearnArrays, LearnIndexing}

\* the gap report of the chat handler on the same snapshot, for an onboarded
\* user
NextReport ==
    \/ FinishLoad
    \/ \E p \in ChatProfiles : Onboarding(p)
    \/ \E message \in GraphMessages : FindGaps(message)
    \/ Return

SpecReport == InitChat /\ [][NextReport]_vars

\* the sessions of a user who asks for topics and whose topics are completed
\* one by one
NextSession ==
    \/ FinishLoad
    \/ \E p \in ChatProfiles : Onboarding(p)
    \/ \E message \in GraphMessages : HandleChatMessage(message)
    \/ CompleteTopic

SpecSession == InitChat /\ [][NextSession]_vars

\* a subtopic entry without the key 'id'
NodeWithoutId ==
    [type |-> "subtopic", name |-> Indexing, parent_topic |-> "t1", keywords |-> {}]

\* the snapshots the handler can find at startup: no graph_data.json, a
\* well-formed one, and one with a node entry that has no 'id'
StartupSnapshots ==
    {[file |-> "missing", nodes |-> <<>>],
     [file |-> "graph_data.json", nodes |-> ChatSnapshotNodes],
     [file |-> "graph_data.json",
      nodes |-> <<ChatNode("t1", Arrays, "None"), NodeWithoutId,
                  ChatNode("t2", Stacks, "None")>>]}

\* the well-formed edge entries of graph_data.json
StartupEntries == ChatEntries \cup {<<"t1", "s1", "contains">>}

\* the messages sent to the handler once it has started
StartupMessages == {Hello, LearnStacks, ImDone, Yes}

\* server.py line 10 is about to construct the handler, and with it the
\* analyzer on the file
InitStartup ==
    /\ \E f \in StartupSnapshots :
          /\ nodes = f.nodes
          /\ call = [op |-> "construct", completed |-> <<>>, target |-> f.file]
    /\ graph = EmptyGraph({})
    /\ clusters = <<>>
    /\ phase = "constructing"
    /\ result = NoResult
    /\ threads = NoThreads
    /\ session = NoSession
    /\ profile = NoProfile

NextStartup ==
    \/ ReadNodes
    \/ \E e \in StartupEntries :
          /\ phase = "loading"
          /\ e[1] \in NodeIds /\ e[2] \in NodeIds
          /\ LoadEdge(e[1], e[2], e[3])
    \/ LoadEdgeWithoutEndpoint
    \/ FinishLoad
    \/ CatchInitError
    \/ \E p \in ChatProfiles : Onboarding(p)
    \/ \E message \in StartupMessages : HandleChatMessage(message)

SpecStartup == InitStartup /\ [][NextStartup]_vars

\* the scraped data the builder is run on: at most MaxTopics topics of these
\* names, each with at most MaxSubtopics subtopics of these names (the keys of
\* a dict are distinct)
MaxTopics == 2
MaxSubtopics == 2
ScrapedTopicNames ==
    {<<"A", "r", "r", "a", "y">>, <<"S", "o", "r", "t", "i", "n", "g">>, <<"a">>, <<"a", " ", "b">>}
ScrapedSubtopicNames == {<<"b", " ", "c">>, <<"c">>}
ScrapedData ==
    LET subtopics == {ss \in SeqsUpTo(ScrapedSubtopicNames, MaxSubtopics) :
                         Len(ss) = Cardinality(Range(ss))}
        topics == [name : ScrapedTopicNames, subtopics : subtopics]
    IN {d \in SeqsUpTo(topics, MaxTopics) :
           \A i \in 1..Len(d), j \in 1..Len(d) : i # j => d[i].name # d[j].name}

\* the cleaned names _generate_id hashes while building from the data
CleanNames(data) ==
    UNION {{CleanName(data[i].name)}
           \cup {CleanName(SubtopicKey(data[i].name, data[i].subtopics[j])) :
                    j \in 1..Len(data[i].subtopics)} : i \in 1..Len(data)}

\* the analyzer constructed on a snapshot GraphBuilder.build_graph wrote:
\* build_real_graph has read the builder's nodes and edges
InitBuilder ==
    \E data \in ScrapedData :
        \E hash \in [CleanNames(data) -> 0..(IdRange - 1)] :
            InitWith(BuildGraph(data, hash).nodes, BuildGraph(data, hash).edges)

NextBuilder ==
    \/ FinishLoad
    \/ \E completed \in {{c} : c \in Range(SubtopicIds)}, target \in Range(TopicIds) :
          FindPath(completed, target)
    \/ Return

SpecBuilder == InitBuilder /\ [][NextBuilder]_vars

----------------------------------------------------------------------------
(* Claims about the path finder (checked under Spec) *)

PathReasons == {"already_completed", "direct_path", "prerequisite_chain", "cluster_based"}

PathCall == call.op = "find_path"

\* the cost of a path result: its 'distance'; an already_completed result has
\* an empty path and carries no distance, which counts as cost 0
Cost(r) == IF r.reason = "already_completed" THEN 0 ELSE r.distance

\* C1: path monotonicity.  For a target of the graph and completed sets
\* A \subseteq B of graph nodes, the cost returned for B is at most the cost
\* returned for A, whichever strategy produced each result.
C1_PathMonotonicity ==
    (PathCall /\ InGraph(call.target) /\ call.completed \subseteq NodeIds) =>
        \A A \in SUBSET call.completed :
            \A rA \in FindOptimalLearningPath(A, call.target) :
                Cost(result) <= Cost(rA)

\* every directed simple path from a node of starts to target
DirectedPaths(starts, target) == UNION {SimplePaths(c, target) : c \in starts}

\* C2: direct path.  For a completed set of graph nodes: when the target is not
\* completed and some completed node has a directed path to it, the reason is
\* direct_path, the distance is the
\* least weight of a directed path from a completed node to the target, and the
\* path is such a least-weight path without its starting node: it is not empty
\* and ends at the target.
C2_DirectPath ==
    (/\ PathCall
     /\ call.completed \subseteq NodeIds
     /\ InGraph(call.target)
     /\ call.target \notin call.completed
     /\ DirectedPaths(call.completed, call.target) # {}) =>
        LET paths == DirectedPaths(call.completed, call.target)
        IN /\ result.reason = "direct_path"
           /\ \A p \in paths : result.distance <= PathWeight(p)
           /\ \E p \in paths : /\ PathWeight(p) = result.distance
                               /\ result.path = Tail(p)
           /\ result.path # <<>>
           /\ result.path[Len(result.path)] = call.target

\* two completed nodes reach the target at different distances and the call
\* answered with a direct path of two steps or of one
C2_Witness ==
    /\ PathCall
    /\ result.reason = "direct_path"
    /\ \E c \in call.completed, d \in call.completed :
          /\ c \in NodeIds /\ d \in NodeIds
          /\ ShortestPathLength(c, call.target) < ShortestPathLength(d, call.target)
          /\ ShortestPathLength(d, call.target) < Inf

\* C3: already-completed short-circuit.  For every id t and every completed set
\* containing t the call returns an empty path with reason already_completed and
\* runs none of the three strategies.
C3_AlreadyCompleted ==
    (PathCall /\ call.target \in call.completed) =>
        /\ result.reason = "already_completed"
        /\ result.path = <<>>
        /\ result.ran = <<>>

\* the target is completed although another completed node has an edge to it
C3_Witness ==
    /\ PathCall
    /\ call.target \in call.completed
    /\ \E c \in call.completed \cap NodeIds : c # call.target /\ HasEdge(c, call.target)
    /\ result.reason = "already_completed"

ChainEdge(n, m) == HasEdge(n, m) /\ EdgeType(n, m) \in {"prerequisite", "sequence"}

\* the non-completed nodes from which target is reached over chain edges
\* through non-completed nodes only, target itself included
RECURSIVE ChainClosure(_, _)
ChainClosure(S, completed) ==
    LET S2 == S \cup {n \in NodeIds \ completed : \E m \in S : ChainEdge(n, m)}
    IN IF S2 = S THEN S ELSE ChainClosure(S2, completed)

\* the nodes n with a chain n = v0 -> ... -> vk = target, k >= 1
ChainNodes(completed, target) ==
    {n \in NodeIds \ completed :
        \E m \in ChainClosure({target}, completed) : ChainEdge(n, m)}

\* C4: prerequisite-chain fallback.  A prerequisite_chain path holds exactly
\* the non-completed nodes with a chain of prerequisite/sequence edges to the
\* target through non-completed nodes; it is the answer whenever no completed
\* node has a directed path to the target and such a node exists; and for the
\* single prerequisite edge t1 -> t2 and an empty completed set the path to t2
\* is [t1].
C4_PrerequisiteChain ==
    /\ (PathCall /\ result.reason = "prerequisite_chain") =>
          /\ Range(result.path) = ChainNodes(call.completed, call.target)
          /\ Len(result.path) = Cardinality(Range(result.path))
    /\ (/\ PathCall
        /\ call.completed \subseteq NodeIds
        /\ InGraph(call.target)
        /\ call.target \notin call.completed
        /\ DirectedPaths(call.completed, call.target) = {}
        /\ ChainNodes(call.completed, call.target) # {}) =>
          result.reason = "prerequisite_chain"
    /\ (/\ PathCall
        /\ Edges = {<<"t1", "t2">>}
        /\ EdgeType("t1", "t2") = "prerequisite"
        /\ call.completed = {}
        /\ call.target = "t2") =>
          (result.reason = "prerequisite_chain" /\ result.path = <<"t1">>)

\* a chain of two edges was collected past a completed prerequisite: n -> m ->
\* target with a sequence edge, and the path holds both n and m
C4_Witness ==
    /\ PathCall
    /\ result.reason = "prerequisite_chain"
    /\ \E n \in Range(result.path), m \in Range(result.path) :
          /\ n # m
          /\ ChainEdge(n, m) /\ EdgeType(n, m) = "sequence"
          /\ ChainEdge(m, call.target)
          /\ ~HasEdge(n, call.target)

\* C5: graceful degradation.  For every target that is a node of the graph and
\* every completed set, whatever ids it holds, the call returns a result whose
\* reason is one of the four reasons and never raises.
C5_GracefulDegradation ==
    (PathCall /\ InGraph(call.target)) =>
        (result.reason \in PathReasons /\ result.exc = "")

\* C6: unknown concept.  When the target id does not resolve to a node of the
\* graph the operation reports UnknownConceptError, an outcome distinct from
\* every path result, and no other exception escapes.
C6_UnknownConcept ==
    (call.op \in {"find_path", "analyze_gaps"} /\ ~InGraph(call.target)) =>
        (result.reason = "raised" /\ result.exc = "UnknownConceptError")

\* the edge types in the order the weights are meant to keep
TypeRank ==
    [ty \in EdgeTypes |->
        CASE ty = "prerequisite" -> 1
          [] ty = "sequence" -> 2
          [] ty = "contains" -> 3
          [] ty = "leads_to" -> 4
          [] ty = "related" -> 5]

\* x's only edge is a -> x, of one of the five types, listed once
Leaf(a, x) ==
    /\ a # x
    /\ HasEdge(a, x)
    /\ graph.attr[<<a, x>>].n = 1
    /\ EdgeType(a, x) \in EdgeTypes
    /\ Predecessors(x) = <<a>>
    /\ Successors(x) = <<>>

\* C10: weight ordering.  When A has one edge to each of two nodes that have no
\* other edge, the cost of the path from {A} to the one whose edge type comes
\* earlier in prerequisite < sequence < contains < leads_to < related is
\* strictly less than the cost of the path from {A} to the other.
C10_WeightOrdering ==
    \A a \in NodeIds, x \in NodeIds, y \in NodeIds :
        (/\ PathCall
         /\ call.completed = {a}
         /\ call.target = x
         /\ Leaf(a, x) /\ Leaf(a, y)
         /\ TypeRank[EdgeType(a, x)] < TypeRank[EdgeType(a, y)]) =>
            \A ry \in FindOptimalLearningPath({a}, y) :
                /\ result.reason = "direct_path" /\ ry.reason = "direct_path"
                /\ result.distance < ry.distance

\* the scenario of spec.md: a prerequisite edge A -> B, a leads_to edge A -> C,
\* and the path from {A} to B was asked for
C10_Witness ==
    \E a \in NodeIds, x \in NodeIds, y \in NodeIds :
        /\ PathCall
        /\ call.completed = {a}
        /\ call.target = x
        /\ Leaf(a, x) /\ Leaf(a, y)
        /\ EdgeType(a, x) = "prerequisite"
        /\ EdgeType(a, y) = "leads_to"
        /\ result.reason = "direct_path"

----------------------------------------------------------------------------
(* Claims about loading *)

\* the weight table of the specification, in tenths: related as the default
SpecWeight(ty) ==
    CASE ty = "prerequisite" -> 1
      [] ty = "sequence" -> 2
      [] ty = "contains" -> 3
      [] ty = "leads_to" -> 5
      [] OTHER -> 10

\* the weight table with 'related' at 0.8
CodeWeight(ty) == IF ty = "related" THEN 8 ELSE SpecWeight(ty)

\* edge types no table names
OtherTypes == {"default", "similar", "Prerequisite", "leads-to"}

\* C9 as stated: every loaded edge carries 0.1 / 0.2 / 0.3 / 0.5 by its type and
\* 1.0 when its type is 'related', absent or unrecognised, which is what
\* get_edge_weight returns for it.
C9_SpecWeightTable ==
    \A p \in Edges :
        /\ graph.attr[p].weight = SpecWeight(graph.attr[p].type)
        /\ GetEdgeWeight(TypeOrDefault(graph.attr[p].type)) = SpecWeight(graph.attr[p].type)

\* C9 amended: get_edge_weight returns 0.1 for prerequisite, 0.2 for sequence,
\* 0.3 for contains, 0.5 for leads_to, 0.8 for related and 1.0 for an absent or
\* unrecognised type, and loading an edge entry leaves on its edge the weight of
\* the entry's type (an entry without a type sets 1.0).
C9_EdgeWeightTable ==
    /\ [](\A ty \in EdgeTypes \cup OtherTypes : GetEdgeWeight(ty) = CodeWeight(ty))
    /\ [][\A u \in NodeIds, v \in NodeIds, ty \in SnapshotTypes :
            LoadEdge(u, v, ty) => graph'.attr[<<u, v>>].weight = CodeWeight(ty)]_vars

\* the analyzer is loaded with a related edge and an edge without a type
C9_Witness ==
    /\ phase = "ready"
    /\ \E p \in Edges, q \in Edges :
          graph.attr[p].type = "related" /\ graph.attr[q].type = NoType

----------------------------------------------------------------------------
(* Claims about the gap analyzer (checked under SpecGap) *)

GapResult == call.op = "analyze_gaps" /\ result.reason = "gaps"

\* C7: completion percentage.  For every completed list a caller passes and
\* every target, 0 <= completion_percentage <= 100, it equals
\* 100 * |completed \cap target_subtopics| / |target_subtopics|, and it is 0
\* when the target has no subtopics.
C7_CompletionPercentage ==
    GapResult =>
        LET pct == result.completion_percentage
            subs == Range(result.target_subtopics)
            done == Range(call.completed) \cap subs
        IN /\ 0 <= pct.num
           /\ pct.num <= 100 * pct.den
           /\ subs = {} => pct.num = 0
           /\ subs # {} =>
                 pct.num * Cardinality(subs) = 100 * Cardinality(done) * pct.den

\* C8: missing-subtopic order.  The returned missing_in_target is ordered by
\* priority score, highest first.
C8_MissingOrder ==
    GapResult =>
        \A i \in 1..Len(result.missing_in_target), j \in 1..Len(result.missing_in_target) :
            i < j =>
                CalculateSubtopicPriority(result.missing_in_target[i], call.completed)
                  >= CalculateSubtopicPriority(result.missing_in_target[j], call.completed)

----------------------------------------------------------------------------
(* Further claims about the path finder (checked under Spec) *)

\* the least weight of a directed simple path from n to t, Inf when there is none
LeastPathWeight(n, t) ==
    IF SimplePaths(n, t) = {} THEN Inf
    ELSE Min({PathWeight(p) : p \in SimplePaths(n, t)})

\* the position of x in the list s
IndexOf(s, x) == CHOOSE i \in 1..Len(s) : s[i] = x

\* the nodes of the chain in the order the backward traversal first met them
DiscoveryOrder(completed, target) ==
    PrerequisiteBFS(<<target>>, completed, <<>>, completed)

\* C11: prerequisite-chain order.  In a prerequisite_chain result the nodes are
\* in non-decreasing order of their forward weighted shortest-path distance to
\* the target over all edge types, and nodes at equal distance are in the order
\* in which the backward breadth-first traversal discovered them.
C11_ChainOrder ==
    (PathCall /\ result.reason = "prerequisite_chain") =>
        LET path == result.path
            found == DiscoveryOrder(call.completed, call.target)
        IN /\ Range(path) = Range(found)
           /\ \A i \in 1..Len(path), j \in 1..Len(path) :
                 i < j =>
                    /\ LeastPathWeight(path[i], call.target)
                          <= LeastPathWeight(path[j], call.target)
                    /\ LeastPathWeight(path[i], call.target)
                          = LeastPathWeight(path[j], call.target)
                        => IndexOf(found, path[i]) < IndexOf(found, path[j])

\* the sort moved a node: the chain was discovered in one order and returned in
\* another, the node met later being strictly nearer to the target
C11_Witness ==
    /\ PathCall
    /\ result.reason = "prerequisite_chain"
    /\ Len(result.path) = 2
    /\ call.target \notin Range(result.path)
    /\ result.path # DiscoveryOrder(call.completed, call.target)
    /\ LeastPathWeight(result.path[1], call.target)
          < LeastPathWeight(result.path[2], call.target)

----------------------------------------------------------------------------
(* Claims about the clusters (checked under SpecCluster) *)

\* subtopic_count + 2 * prerequisite_count of a topic: its successors of type
\* subtopic, and twice its predecessors over a prerequisite edge
ComplexityScore(t) ==
    Cardinality({n \in NodeIds : HasEdge(t, n) /\ NodeType[n] = "subtopic"})
    + 2 * Cardinality({n \in NodeIds : HasEdge(n, t) /\ EdgeType(n, t) = "prerequisite"})

\* the positions of the members of the target's cluster that may be suggested:
\* not the target, not completed
Suggestable(cluster, completed, target) ==
    {i \in 1..Len(cluster) : cluster[i] # target /\ cluster[i] \notin completed}

\* the nodes reached from a node of S over directed edges of any type
RECURSIVE ForwardClosure(_)
ForwardClosure(S) ==
    LET S2 == S \cup {m \in NodeIds : \E n \in S : HasEdge(n, m)}
    IN IF S2 = S THEN S ELSE ForwardClosure(S2)

\* C12: cluster fallback.  When no completed node has a directed path to the
\* target and no prerequisite is missing, the reason is cluster_based.  A
\* cluster_based path holds at most 3 topic ids, all of them members of the
\* target's cluster other than the target and not completed; it is in ascending
\* order of subtopic_count + 2 * prerequisite_count, no member left out has a
\* lower score than one in the path, and it is shorter than 3 only when every
\* such member is in it.  It is empty when the target belongs to no cluster.
C12_ClusterFallback ==
    /\ (/\ PathCall
        /\ call.completed \subseteq NodeIds
        /\ InGraph(call.target)
        /\ call.target \notin ForwardClosure(call.completed)
        /\ ChainNodes(call.completed, call.target) = {}) =>
          result.reason = "cluster_based"
    /\ (PathCall /\ result.reason = "cluster_based") =>
          LET path == result.path
              holding == {c \in 1..Len(clusters) : Contains(clusters[c], call.target)}
          IN /\ Len(path) <= 3
             /\ holding = {} => path = <<>>
             /\ holding # {} =>
                   \E c \in holding :
                      LET ok == Suggestable(clusters[c], call.completed, call.target)
                      IN \E pos \in [1..Len(path) -> ok] :
                            /\ \A i \in 1..Len(path) : clusters[c][pos[i]] = path[i]
                            /\ \A i \in 1..Len(path), j \in 1..Len(path) :
                                  i # j => pos[i] # pos[j]
                            /\ \A i \in 1..Len(path), j \in 1..Len(path) :
                                  i < j => ComplexityScore(path[i]) <= ComplexityScore(path[j])
                            /\ \A k \in ok \ Range(pos) :
                                  /\ Len(path) = 3
                                  /\ \A i \in 1..Len(path) :
                                        ComplexityScore(path[i])
                                          <= ComplexityScore(clusters[c][k])
             /\ \A i \in 1..Len(path) : NodeType[path[i]] = "topic"

\* the target's cluster holds four other topics, none completed, of at least
\* two different scores, and three of them were returned
C12_Witness ==
    /\ PathCall
    /\ result.reason = "cluster_based"
    /\ Len(result.path) = 3
    /\ \E c \in 1..Len(clusters) :
          /\ Contains(clusters[c], call.target)
          /\ Cardinality(Suggestable(clusters[c], call.completed, call.target)) = 4
          /\ \E k \in Suggestable(clusters[c], call.completed, call.target) :
                /\ ~Contains(result.path, clusters[c][k])
                /\ ComplexityScore(clusters[c][k]) > ComplexityScore(result.path[1])

\* the clusters that list the id t
ClustersHolding(t) == {c \in 1..Len(clusters) : Contains(clusters[c], t)}

\* C13: partition invariant.  After the clustering, whatever labels it gave,
\* every topic id of the graph is in exactly one cluster and no cluster holds an
\* id that is not a topic's.
C13_Partition ==
    phase = "ready" =>
        /\ \A t \in Range(TopicIds) : Cardinality(ClustersHolding(t)) = 1
        /\ \A c \in 1..Len(clusters) : Range(clusters[c]) \subseteq Range(TopicIds)

----------------------------------------------------------------------------
(* Claims about name lookup (checked under SpecNames) *)

NodeCall == call.op = "find_node"

\* str.upper(), character by character
UpperChar(c) == IF c = "a" THEN "A" ELSE IF c = "b" THEN "B" ELSE c
Upper(name) == [i \in 1..Len(name) |-> UpperChar(name[i])]

\* the stored (lower-cased) names, and the query as it is compared with them
StoredKeys == {Lower(nodes[i].name) : i \in 1..Len(nodes)}
Asked == Strip(Lower(call.target))

\* the positions in the name index of the names that contain the query or are
\* contained in it
MatchPositions ==
    {i \in 1..Len(AllNameToId) :
        \/ IsSubstring(Asked, AllNameToId[i][1])
        \/ IsSubstring(AllNameToId[i][1], Asked)}

\* C14: name resolution.  The lookup does not depend on the case of the query
\* or of the stored names; when no stored name equals the query and several
\* stored names are substring matches it returns the id of the shortest
\* matching name, the first in insertion order among the shortest; and it
\* returns None when nothing matches.
C14_NameResolution ==
    NodeCall =>
        /\ result.id = FindNodeByName(Lower(call.target))
        /\ result.id = FindNodeByName(Upper(call.target))
        /\ (Asked \notin StoredKeys /\ Cardinality(MatchPositions) > 1) =>
              \E i \in MatchPositions :
                 /\ result.id = AllNameToId[i][2]
                 /\ \A j \in MatchPositions :
                       \/ Len(AllNameToId[i][1]) < Len(AllNameToId[j][1])
                       \/ Len(AllNameToId[i][1]) = Len(AllNameToId[j][1]) /\ i <= j
        /\ (Asked \notin StoredKeys /\ MatchPositions = {}) => result.id = "None"

\* a query in upper case that equals no stored name and matches two stored
\* names of the same least length, with a longer third match
C14_Witness ==
    /\ NodeCall
    /\ call.target # Lower(call.target)
    /\ Asked \notin StoredKeys
    /\ Cardinality(MatchPositions) = 3
    /\ \E i \in MatchPositions, j \in MatchPositions, k \in MatchPositions :
          /\ i < j
          /\ Len(AllNameToId[i][1]) = Len(AllNameToId[j][1])
          /\ Len(AllNameToId[i][1]) < Len(AllNameToId[k][1])
          /\ result.id = AllNameToId[i][2]
          /\ AllNameToId[i][2] # AllNameToId[j][2]

----------------------------------------------------------------------------
(* Further claims about the gap analyzer (checked under SpecGap) *)

\* the subtopic nodes the target has a 'contains' edge to
ContainedSubtopics(target) ==
    {n \in NodeIds : /\ NodeType[n] = "subtopic"
                      /\ HasEdge(target, n)
                      /\ EdgeType(target, n) = "contains"}

\* C15: gap partition.  target_subtopics is the set of subtopic nodes the
\* target reaches by a 'contains' edge; completed_in_target and
\* missing_in_target are disjoint and together equal target_subtopics; and for
\* t1 with the subtopics s1 and s2 and completed {s1} the completion percentage
\* is 50.0 and missing_in_target is [s2].
C15_GapPartition ==
    GapResult =>
        LET subs == Range(result.target_subtopics)
            done == Range(result.completed_in_target)
            missing == Range(result.missing_in_target)
        IN /\ subs = ContainedSubtopics(call.target)
           /\ Len(result.target_subtopics) = Cardinality(subs)
           /\ done \cap missing = {}
           /\ done \cup missing = subs
           /\ done = subs \cap Range(call.completed)
           /\ Len(result.missing_in_target) = Cardinality(missing)
           /\ (/\ call.target = "t1"
               /\ call.completed = <<"s1">>
               /\ ContainedSubtopics("t1") = {"s1", "s2"}) =>
                 /\ result.completion_percentage.num
                       = 50 * result.completion_percentage.den
                 /\ result.missing_in_target = <<"s2">>

\* the scenario of the claim, on a graph where t1 also has an edge of another
\* type to a subtopic or a subtopic has one to another
C15_Witness ==
    /\ GapResult
    /\ call.target = "t1"
    /\ call.completed = <<"s1">>
    /\ ContainedSubtopics("t1") = {"s1", "s2"}
    /\ result.missing_in_target = <<"s2">>
    /\ HasEdge("s1", "s2")

\* a list without repeats: a set handed over as a list
IsSet(s) == Len(s) = Cardinality(Range(s))

\* the completed ids with an edge of one of the types tys to s
EdgesInto(s, C, tys) == {c \in C : HasEdge(c, s) /\ EdgeType(c, s) \in tys}

\* C16: priority score.  For a missing subtopic s and a completed set C the
\* priority is 3 for each c in C with a prerequisite edge c -> s, 2 for each
\* with a sequence edge, 1.5 for each with a leads_to edge, 1 for each with an
\* edge of another type, plus 0.5 for each c in C with an edge s -> c, plus 0.1
\* times the in-degree plus out-degree of s (here in tenths).
C16_PriorityScore ==
    (GapResult /\ IsSet(call.completed)) =>
        \A i \in 1..Len(result.printed) :
            LET sub == result.printed[i]
                C == Range(call.completed)
                linked == {c \in C : HasEdge(c, sub)}
            IN result.printed_priority[i] =
                  30 * Cardinality(EdgesInto(sub, C, {"prerequisite"}))
                + 20 * Cardinality(EdgesInto(sub, C, {"sequence"}))
                + 15 * Cardinality(EdgesInto(sub, C, {"leads_to"}))
                + 10 * Cardinality(linked \ EdgesInto(sub, C,
                                        {"prerequisite", "sequence", "leads_to"}))
                + 5 * Cardinality({c \in C : HasEdge(sub, c)})
                + Cardinality({n \in NodeIds : HasEdge(n, sub)})
                + Cardinality({n \in NodeIds : HasEdge(sub, n)})

\* a missing subtopic with a leads_to edge from a completed subtopic and an
\* edge back to it
C16_Witness ==
    /\ GapResult
    /\ IsSet(call.completed)
    /\ \E i \in 1..Len(result.printed), c \in Range(call.completed) :
          /\ HasEdge(c, result.printed[i])
          /\ EdgeType(c, result.printed[i]) = "leads_to"
          /\ HasEdge(result.printed[i], c)
          /\ result.printed_priority[i] = 23

----------------------------------------------------------------------------
(* Claims about cross-topic prerequisites (checked under SpecCross) *)

\* the subtopics outside the target, not completed, with a prerequisite or
\* sequence edge into a subtopic of the target
CrossPrerequisites(completed, target) ==
    {s \in Range(SubtopicIds) :
        /\ s \notin ContainedSubtopics(target)
        /\ s \notin completed
        /\ \E x \in ContainedSubtopics(target) :
              HasEdge(s, x) /\ EdgeType(s, x) \in {"prerequisite", "sequence"}}

\* the place of the id x in the snapshot's node list (its first, if several)
ListedAt(x) == Min({i \in 1..Len(nodes) : nodes[i].id = x})

\* C17: cross-topic prerequisites.  prerequisite_subtopics holds exactly the
\* subtopic ids that are not subtopics of the target, are not completed and
\* have a prerequisite or sequence edge into a subtopic of the target, each of
\* them once, in the order the snapshot lists the subtopics.
C17_CrossTopicPrerequisites ==
    GapResult =>
        LET pre == result.prerequisite_subtopics
        IN /\ Range(pre) = CrossPrerequisites(Range(call.completed), call.target)
           /\ Len(pre) = Cardinality(Range(pre))
           /\ \A i \in 1..Len(pre), j \in 1..Len(pre) :
                 i < j => ListedAt(pre[i]) < ListedAt(pre[j])

----------------------------------------------------------------------------
(* Claims about calls in progress (checked under SpecConcurrent) *)

\* what the call of a frame returns when it runs alone on the loaded analyzer
AloneResults(f) ==
    IF f.op = "find_path" THEN FindOptimalLearningPath(f.completed, f.target)
    ELSE {AnalyzeSubtopicLearningGaps(f.completed, f.target)}

\* C18: however the statement groups of the calls of find_optimal_learning_path
\* and analyze_subtopic_learning_gaps interleave on the loaded analyzer, no
\* step of a call changes the graph, the node list and its indexes or the
\* clusters, a call in progress keeps the arguments it was given, and the
\* result a call reaches is one it can return when it runs alone.
C18_ReadOnlyCore ==
    /\ [](\A t \in DOMAIN threads :
            threads[t].pc = "done" => threads[t].result \in AloneResults(threads[t]))
    /\ [][phase = "ready" =>
            /\ graph' = graph
            /\ nodes' = nodes
            /\ clusters' = clusters
            /\ \A t \in DOMAIN threads \cap DOMAIN threads' :
                  /\ threads'[t].op = threads[t].op
                  /\ threads'[t].completed = threads[t].completed
                  /\ threads'[t].target = threads[t].target]_vars

\* two calls, one of each kind, were in progress together and both have
\* reached their return statement, the path finder through its cluster step
C18_Witness ==
    /\ DOMAIN threads = Callers
    /\ \A t \in Callers : threads[t].pc = "done"
    /\ \E t \in Callers :
          /\ threads[t].op = "find_path"
          /\ threads[t].result.reason = "cluster_based"
          /\ threads[t].result.path # <<>>
    /\ \E t \in Callers :
          /\ threads[t].op = "analyze_gaps"
          /\ threads[t].result.reason = "gaps"
          /\ threads[t].result.prerequisite_subtopics # <<>>

----------------------------------------------------------------------------
(* Claims about startup (checked under SpecStartup) *)

\* C19: loading a snapshot in which a node has no 'id', or an edge no 'source'
\* or 'target', fails with MalformedGraphError, and the failure ends the
\* startup: a chat message is answered only by a handler whose analyzer was
\* constructed on a snapshot that was read in full and has nodes.
C19_MalformedSnapshot ==
    /\ phase = "raised" => result.exc = "MalformedGraphError"
    /\ call.op = "chat" => phase = "ready" /\ nodes # <<>>

----------------------------------------------------------------------------
(* Claims about the chat handler (checked under SpecChat) *)

\* the profile file lists the topic as known
InProfile(p, topic_name) ==
    \E i \in 1..Len(p.topics) : Lower(p.topics[i].name) = Lower(topic_name)

\* the last reply asked the user to confirm the current topic
AwaitingConfirmation ==
    result.reason = "reply" /\ result.kind = "awaiting_confirmation"

\* C20: when the last reply was the awaiting_confirmation reply of
\* handle_topic_completion, the next message 'Yes' puts the current topic in
\* the user profile and moves the session one step on, the next message 'No'
\* leaves the session where it is and is answered with more explanation, and
\* the next message 'Next topic' moves the session one step on and does not
\* put the current topic in the profile.
C20_ConfirmationProtocol ==
    [][AwaitingConfirmation =>
          /\ call'.target = Yes =>
                /\ InProfile(profile', CurrentTopic(session))
                /\ session'.current_step_index = session.current_step_index + 1
          /\ call'.target = No =>
                /\ session'.current_step_index = session.current_step_index
                /\ session'.current_path = session.current_path
                /\ result'.kind = "detailed_explanation_provided"
          /\ call'.target = NextTopic =>
                /\ session'.current_step_index = session.current_step_index + 1
                /\ ~InProfile(profile, CurrentTopic(session))
                      => ~InProfile(profile', CurrentTopic(session))]_vars

\* C22: 'no' routing.  While a learning path is active, a message that has a
\* no_help pattern is answered by handle_no_response: the reply asks which
\* aspect of the current topic to explain and the session stays as it was.
\* (Checked under SpecNoHelp, where only a chat message changes the state
\* once a path is active.)
C22_NoRouting ==
    [][(/\ HasCurrentTopic(session)
        /\ call'.op = "chat"
        /\ AnyIn(NoHelpPatterns, Lower(call'.target)))
          => /\ result'.kind = "awaiting_specific_question"
             /\ session' = session]_vars

\* the topics the message of the last find_learning_gaps call mentions
ReportTargets == AnalyzeUserQuery(call.target, profile).mentioned_topics

\* C23: gap reporting.  When the query mentions a topic of the graph that has
\* subtopics the user has not completed, the 'gaps' list find_learning_gaps
\* returns is not empty and names at most five of the missing or prerequisite
\* subtopics analyze_subtopic_learning_gaps finds for that target.
C23_GapReporting ==
    (call.op = "find_learning_gaps" /\ ReportTargets # <<>>) =>
        LET found == AnalyzeSubtopicLearningGaps(call.completed, ReportTargets[1].id)
            names(ids) == {NameOfId(ids[i]) : i \in 1..Len(ids)}
        IN (found.reason = "gaps" /\ found.missing_in_target # <<>>) =>
              /\ result.gaps # <<>>
              /\ Len(result.gaps) <= GapNamesLimit
              /\ Range(result.gaps) \subseteq
                    names(found.missing_in_target) \cup names(found.prerequisite_subtopics)

----------------------------------------------------------------------------
(* Claims about the learning session (checked under SpecSession and SpecChat) *)

\* C24: complete_current_topic.  With a non-empty current_path and
\* current_step_index < len(current_path) the call appends one entry, for
\* current_path[current_step_index], to completed_topics, adds one to
\* current_step_index, leaves the rest of the session alone and returns True;
\* otherwise it returns False and leaves the session as it was.
C24_CompleteCurrentTopic ==
    [][(call'.op = "complete_current_topic" /\ profile' = profile) =>
          IF session.current_path # <<>>
             /\ session.current_step_index < Len(session.current_path)
          THEN /\ Len(session'.completed_topics) = Len(session.completed_topics) + 1
               /\ SubSeq(session'.completed_topics, 1, Len(session.completed_topics))
                     = session.completed_topics
               /\ session'.completed_topics[Len(session'.completed_topics)]
                     = session.current_path[session.current_step_index + 1]
               /\ session'.current_step_index = session.current_step_index + 1
               /\ session'.current_path = session.current_path
               /\ session'.target_topic = session.target_topic
               /\ result'.value = TRUE
          ELSE /\ session' = session
               /\ result'.value = FALSE]_vars

\* a call has completed the second topic of a path
C24_Witness ==
    /\ call.op = "complete_current_topic"
    /\ result.value = TRUE
    /\ session.current_step_index = 2
    /\ Len(session.completed_topics) >= 2

\* C25: session bounds.  From a fresh session on, whatever chat messages the
\* user sends, current_step_index stays between 0 and len(current_path), and
\* completed_topics never gets shorter.
C25_SessionBounds ==
    /\ [](/\ 0 <= session.current_step_index
          /\ session.current_step_index <= Len(session.current_path))
    /\ [][Len(session'.completed_topics) >= Len(session.completed_topics)]_vars

\* a new path has been started after topics of an earlier path were completed
C25_Witness ==
    /\ call.op = "chat"
    /\ session.current_path # <<>>
    /\ session.current_step_index = 0
    /\ Len(session.completed_topics) >= 2

----------------------------------------------------------------------------
(* Claims about built graphs (checked under SpecBuilder) *)

\* C21: contains-edge invariant of built graphs.  In the graph loaded from a
\* snapshot that build_graph wrote, every 'contains' edge goes from a node of
\* type topic to a node of type subtopic whose parent_topic is the edge's
\* source, whatever the names and whether or not generated ids coincide.
C21_ContainsEdges ==
    \A e \in Edges :
        EdgeType(e[1], e[2]) = "contains" =>
            /\ NodeData(e[1]).type = "topic"
            /\ NodeData(e[2]).type = "subtopic"
            /\ NodeData(e[2]).parent_topic = e[1]

----------------------------------------------------------------------------
(* Claims about the steps of a returned path *)

\* C26: no known or repeated steps.  The path find_optimal_learning_path
\* returns holds no id of the completed set and no id twice, whichever of
\* direct_path, prerequisite_chain and cluster_based produced it.
C26_NoKnownOrRepeatedSteps ==
    (PathCall /\ result.reason \in {"direct_path", "prerequisite_chain", "cluster_based"}) =>
        /\ Range(result.path) \cap call.completed = {}
        /\ Len(result.path) = Cardinality(Range(result.path))

\* C27: target excluded from fallback paths.  A path returned with reason
\* prerequisite_chain or cluster_based never holds the target id, also when
\* prerequisite or sequence edges form a cycle through the target.
C27_TargetExcluded ==
    (PathCall /\ result.reason \in {"prerequisite_chain", "cluster_based"}) =>
        call.target \notin Range(result.path)

----------------------------------------------------------------------------
(* Claims about the prerequisite search (checked under SpecSearchFair) *)

\* the search of the caller is in its while loop / has returned
Searching == Running(Searcher) /\ threads[Searcher].pc = "while"
Searched == Running(Searcher) /\ threads[Searcher].pc = "done"

\* C28: the prerequisite search terminates.  On every graph, with cycles of
\* prerequisite/sequence edges and self-loops too, a call of
\* find_missing_prerequisites that has started returns, and it goes through
\* the predecessors of no node more than once.
C28_SearchTerminates ==
    /\ Searching ~> Searched
    /\ [](Searching =>
            Len(threads[Searcher].locals.expanded)
               = Cardinality(Range(threads[Searcher].locals.expanded)))

\* a search has returned after it met a node again that it had expanded, on a
\* graph with a cycle through the target
C28_Witness ==
    /\ Searched
    /\ threads[Searcher].target \in Range(threads[Searcher].result.path)
    /\ Len(threads[Searcher].locals.expanded) >= 2

----------------------------------------------------------------------------
(* Claims about colliding names (checked under SpecNames) *)

\* the places in the snapshot of the nodes of a type whose name is the query,
\* up to letter case and surrounding blanks of the query
NamedAsAsked(type) ==
    {i \in 1..Len(nodes) : nodes[i].type = type /\ Lower(nodes[i].name) = Asked}

\* C29: name collision.  When a topic and a subtopic have the same name up to
\* letter case, find_node_by_name for that name returns the subtopic's id and
\* not the topic's; and a stored name equal to the query (case and surrounding
\* blanks aside) is taken before any substring match, shorter ones included.
C29_NameCollision ==
    NodeCall =>
        /\ (NamedAsAsked("topic") # {} /\ NamedAsAsked("subtopic") # {}) =>
              /\ \E i \in NamedAsAsked("subtopic") : result.id = nodes[i].id
              /\ \A i \in NamedAsAsked("topic") : result.id # nodes[i].id
        /\ Asked \in StoredKeys =>
              \E i \in NamedAsAsked("topic") \cup NamedAsAsked("subtopic") :
                 result.id = nodes[i].id

\* a topic and the subtopic have the name asked for in another case, and the
\* other topic has a shorter name that the query contains
C29_Witness ==
    /\ NodeCall
    /\ NamedAsAsked("topic") # {}
    /\ NamedAsAsked("subtopic") # {}
    /\ call.target # Lower(call.target)
    /\ \E i \in 1..Len(nodes) :
          /\ Len(nodes[i].name) < Len(Asked)
          /\ IsSubstring(Lower(nodes[i].name), Asked)
    /\ result.id = "s1"

====
